---------------------------- MODULE Spec2Model ----------------------------
(***************************************************************************)
(* Record CRUD handlers of hanzoai/backendPB (apis/record_crud.go, kept    *)
(* in src/apis/base_test.go from line 388 on): recordsList, recordView,    *)
(* recordCreate, recordUpdate, recordDelete and hasAuthManageAccess.       *)
(*                                                                         *)
(* The frame h holds the locals of the running handler under their source *)
(* names, plus what the handler has done so far (expressions built,        *)
(* predicates applied, response written).  Every step of a handler between *)
(* two early returns is one action.  Under Spec one request is served at a *)
(* time; under SpecConc a second worker, whose frame is w while it is not  *)
(* running, serves requests concurrently on the same table; under          *)
(* SpecBucket list requests are served with the timing rate-limit buckets  *)
(* of their collections followed.                                          *)
(*                                                                         *)
(* SpecData calls recordDataFromRequest, extractUploadedFiles,             *)
(* NewWithConfig and the Static handler on their own, on inputs drawn from *)
(* bounded sets.  SpecApp and SpecAppLive are HanzoBase.Execute            *)
(* (src/hanzobase.go) with its signal goroutine and its command goroutine. *)
(***************************************************************************)
EXTENDS Integers, Sequences, FiniteSets, TLC

VARIABLES db, h, w, call, timing, app, ui

vars == <<db, h, w, call, timing, app, ui>>

\* the state outside the record handlers: call is the last call of one of
\* the helper functions that are exercised on their own, app the state of
\* HanzoBase.Execute, ui the collections stores of the dashboard's tabs
apart == <<call, app, ui>>

\* timing holds the timing rate-limit buckets that are followed: the
\* requests the client has left in the current window, by bucket key
rest == <<apart, timing>>

\* what the steps of the running handler leave alone besides the table
others == <<w, rest>>

----------------------------------------------------------------------------
(* Bounds *)

\* number of record ids the collection table can hold
MaxRecords == 2

----------------------------------------------------------------------------
(* Rules: a rule slot is a nullable string *)

\* the nil pointer: an absent rule
Nil == "<nil>"
\* the empty string: a rule that allows everybody
Empty == ""
\* three non-empty rule expressions; the last one does not parse
OwnerRule == "owner = @request.auth.id"
VerifiedRule == "verified = true"
BrokenRule == "owner ="

RuleSeq == <<Nil, Empty, OwnerRule, VerifiedRule, BrokenRule>>

Rules == {RuleSeq[i] : i \in 1..5}

\* search.FilterData(rule).BuildExpr(resolver): fails on a malformed or empty expression
BuildExprFails(rule) == rule \in {BrokenRule, ""}

\* the row predicate a built rule expression stands for, evaluated directly
\* on a row's field values and the caller's request info
RuleHolds(rule, row, info) ==
    CASE rule = OwnerRule -> info.Auth # "" /\ row.owner = info.Auth
      [] rule = VerifiedRule -> row.verified
      [] OTHER -> FALSE

----------------------------------------------------------------------------
(* Collections *)

Types == {"base", "auth", "view"}

\* slot k of the i-th collection of a family: the five slots of one
\* collection hold five different rules
Rot(i, k) == RuleSeq[((i + k) % 5) + 1]

Collection(t, i, m) ==
    [Id         |-> "id_" \o t \o ToString(i) \o ToString(m),
     Name       |-> t \o ToString(i) \o ToString(m),
     Type       |-> t,
     ListRule   |-> Rot(i, 0),
     ViewRule   |-> Rot(i, 1),
     CreateRule |-> Rot(i, 2),
     UpdateRule |-> Rot(i, 3),
     DeleteRule |-> Rot(i, 4),
     ManageRule |-> RuleSeq[m]]

\* the ManageRule values a collection of type t is given here
ManageOf(t) == IF t = "auth" THEN 1..5 ELSE IF t = "base" THEN {3} ELSE {1}

\* the collections of the app
Collections ==
    UNION {{Collection(t, i, m) : i \in 0..4, m \in ManageOf(t)} : t \in Types}

\* FindCachedCollectionByNameOrId found nothing
NoCollection ==
    [Id |-> "", Name |-> "", Type |-> "none", ListRule |-> Nil, ViewRule |-> Nil,
     CreateRule |-> Nil, UpdateRule |-> Nil, DeleteRule |-> Nil, ManageRule |-> Nil]

IsView(c) == c.Type = "view"

IsAuth(c) == c.Type = "auth"

----------------------------------------------------------------------------
(* Records, request data *)

Ids == 1..MaxRecords

Users == {"u1", "u2"}

\* id 0 is the empty id ""
NoRecord == [id |-> 0, owner |-> "", verified |-> FALSE]

\* what a create or update request submits
Bodies == [owner : Users, verified : BOOLEAN]

NoBody == [owner |-> "", verified |-> FALSE]

\* the client's filter query parameter
FilterOwner == "owner = 'u2'"
FilterSuperuserOnly == "@collection.users.id != ''"
FilterBroken == "owner ~"

Filters == {"", FilterOwner, FilterSuperuserOnly, FilterBroken}

FilterHolds(filter, row) == filter = "" \/ (filter = FilterOwner /\ row.owner = "u2")

\* requestInfo.Auth: "" is no auth record, "su" a superuser record
Auths == {"", "u1", "su"}

NoRequestInfo == [Auth |-> "", Body |-> NoBody, Query |-> ""]

HasSuperuserAuth(info) == info.Auth = "su"

----------------------------------------------------------------------------
(* Errors and responses *)

NoErr == [api |-> FALSE, status |-> 0, msg |-> ""]

\* an *router.ApiError, as e.NotFoundError, e.BadRequestError, ... build it
ApiError(status, msg) == [api |-> TRUE, status |-> status, msg |-> msg]

\* an error that is no ApiError; the router answers it with a generic 400
PlainErr == [api |-> FALSE, status |-> 400, msg |-> "Something went wrong while processing your request."]

\* the errors a collaborator (request parsing, form, enrich, hooks, finalizer) may return
ExtErrs == {PlainErr, ApiError(413, "Request entity too large.")}

firstApiError(e1, e2) ==
    IF e1.api THEN e1
    ELSE IF e2.api THEN e2
    ELSE ApiError(500, "")

NoResponse == [status |-> 0, records |-> {}]

----------------------------------------------------------------------------
(* The handler frame *)

IdleFrame ==
    [pc                   |-> "idle",
     op                   |-> "none",
     optFinalizer         |-> "nil",
     auth                 |-> "",
     collection           |-> NoCollection,
     recordId             |-> 0,
     requestInfo          |-> NoRequestInfo,
     record               |-> NoRecord,
     records              |-> {},
     data                 |-> NoBody,
     form                 |-> "none",
     dummyRecord          |-> NoRecord,
     dummyCollection      |-> NoCollection,
     isOptFinalizerCalled |-> FALSE,
     \* what the handler did
     stages               |-> <<>>,
     built                |-> {},
     resolved             |-> {},
     applied              |-> {},
     ruleQueries          |-> {},
     ruleFailed           |-> {},
     queryFailed          |-> FALSE,
     createCheck          |-> "none",
     submitted            |-> FALSE,
     finalizerCalls       |-> 0,
     timingCheck          |-> "none",
     throttle             |-> -1,
     randErr              |-> FALSE,
     duringSleep          |-> FALSE,
     written              |-> NoResponse,
     ret                  |-> NoErr]

\* the handler returns err (NoErr: returns nil)
Return(f, err) == [f EXCEPT !.pc = "done", !.ret = err]

\* number of words of os.Args[1:]
MaxArgs == 2

\* the words of a command line: a registered command, an unknown one, the
\* four flags skipBootstrap looks for, and another flag
FlagWords == {"-h", "--help", "-v", "--version", "--dev"}

ArgWords == {"serve", "bogus"} \cup FlagWords

CommandLines == UNION {[1..n -> ArgWords] : n \in 0..MaxArgs}

\* strings.TrimLeft(arg, "-")
TrimLeft(arg) ==
    CASE arg = "-h" -> "h"
      [] arg = "--help" -> "help"
      [] arg = "-v" -> "v"
      [] arg = "--version" -> "version"
      [] arg = "--dev" -> "dev"
      [] OTHER -> arg

\* hb.RootCmd.Find(os.Args[1:]) returns an error: the first word that is
\* not a flag is not a registered command
FindFails(args) ==
    \E i \in 1..Len(args) :
        /\ args[i] = "bogus"
        /\ \A j \in 1..(i - 1) : args[j] \in FlagWords

ErrBootstrap == [api |-> FALSE, status |-> 0, msg |-> "bootstrap failed"]

ErrTerminateHook == [api |-> FALSE, status |-> 0, msg |-> "terminate hook failed"]

ErrReset == [api |-> FALSE, status |-> 0, msg |-> "reset failed"]

\* before Execute is called; flags and shorthands are the names
\* cmd.Flags().Lookup and cmd.Flags().ShorthandLookup find on the command
IdleApp ==
    [pc             |-> "idle",
     args           |-> <<>>,
     flags          |-> {},
     shorthands     |-> {},
     bootstrapped   |-> FALSE,
     wasBootstrapped |-> FALSE,
     bootstrapCalls |-> 0,
     bootErr        |-> NoErr,
     done           |-> 0,
     sig            |-> "none",
     cmd            |-> "none",
     blocked        |-> {},
     received       |-> 0,
     rootExecuted   |-> FALSE,
     terminateCalls |-> 0,
     resetCalls     |-> 0,
     ret            |-> NoErr]

\* the collections stores of the dashboard (src/ui/src/stores/collections.js)

\* collections the server can hold
MaxCollections == 2

\* loadCollections calls one tab has in flight
MaxLoads == 1

\* calls of the exported functions of the store by the dashboard
MaxOps == 3

\* the open tabs of the dashboard
Tabs == {"tab1", "tab2"}

CollectionIds == 1..MaxCollections

\* a collection as the server returns it; the first one is a system collection
Coll(i) == [kind |-> "collection", id |-> i, system |-> i = 1]

\* writable({}): the object without an id the store is made with
EmptyObject == [kind |-> "object", id |-> 0, system |-> FALSE]

\* the JavaScript value undefined
Undefined == [kind |-> "undefined", id |-> 0, system |-> FALSE]

\* no call of loadCollections in this slot
NoLoad ==
    [pc |-> "none", activeId |-> 0, answer |-> "none", items |-> <<>>,
     added |-> {}, fromMessage |-> FALSE]

\* the module of one tab after it was evaluated (lines 5-18); inbox counts
\* the message events waiting for onmessage, posted the postMessage calls
\* of the tab, reloads the loads its onmessage started
IdleTab ==
    [collections          |-> <<>>,
     activeCollection     |-> EmptyObject,
     isCollectionsLoading |-> FALSE,
     loads                |-> [k \in 1..MaxLoads |-> NoLoad],
     inbox                |-> 0,
     posted               |-> 0,
     reloads              |-> 0,
     threw                |-> FALSE]

\* the server holds the system collection; no tab has called the store
IdleUi == [server |-> {1}, tab |-> [t \in Tabs |-> IdleTab], ops |-> 0]

\* no timing bucket is followed
NoBuckets == <<>>

\* no helper function has been called on its own
NoCall == [fn |-> "none"]

\* the frame with stage s entered
Stage(f, s) == [f EXCEPT !.stages = Append(@, s)]

\* the frame at program point pc
Goto(f, pc) == [f EXCEPT !.pc = pc]

Init ==
    /\ db = [i \in Ids |-> IF i = 1 THEN [id |-> 1, owner |-> "u1", verified |-> FALSE] ELSE NoRecord]
    /\ h = IdleFrame
    /\ w = IdleFrame
    /\ call = NoCall
    /\ timing = NoBuckets
    /\ app = IdleApp
    /\ ui = IdleUi

----------------------------------------------------------------------------
(* Routing *)

Ops == {"list", "view", "create", "update", "delete"}

\* bindRecordCrudApi registers the handlers with a nil finalizer; the batch
\* api calls recordCreate, recordUpdate and recordDelete with one.  auth is
\* the auth record the request event carries when the handler is entered.
\* no request is taken while the other worker sleeps in the throttle
Request_blockedBySleep ==
    /\ h.pc = "idle" /\ w.pc # "sleep"
    /\ \E op \in Ops, fin \in {"nil", "set"}, auth \in Auths :
        /\ op \in {"list", "view"} => fin = "nil"
        /\ h' = [IdleFrame EXCEPT !.pc = "collection", !.op = op, !.optFinalizer = fin,
                                  !.auth = auth, !.duringSleep = (w.pc = "sleep")]
    /\ UNCHANGED <<db, others>>

\* duringSleep notes whether the other worker was sleeping in the throttle
\* when this request came in
Request ==
    /\ h.pc = "idle"
    /\ \E op \in Ops, fin \in {"nil", "set"}, auth \in Auths :
        /\ op \in {"list", "view"} => fin = "nil"
        /\ h' = [IdleFrame EXCEPT !.pc = "collection", !.op = op, !.optFinalizer = fin,
                                  !.auth = auth, !.duringSleep = (w.pc = "sleep")]
    /\ UNCHANGED <<db, others>>

\* the handler has returned; the worker takes the next request
Finish ==
    /\ h.pc = "done"
    /\ h' = IdleFrame
    /\ UNCHANGED <<db, others>>

----------------------------------------------------------------------------
(* Field resolvers *)

\* core.NewRecordFieldResolver(app, collection, requestInfo, allowHiddenFields)
NewRecordFieldResolver(allowHiddenFields) == [allowHiddenFields |-> allowHiddenFields]

\* the resolver keeps the flag it was made with
SetAllowHiddenFields_kept(resolver, allow) == resolver

\* fieldsResolver.SetAllowHiddenFields(allow)
SetAllowHiddenFields(resolver, allow) == [resolver EXCEPT !.allowHiddenFields = allow]

\* an expression of the slot was resolved with the resolver
Resolved(slot, resolver) == <<slot, resolver.allowHiddenFields>>

----------------------------------------------------------------------------
(* recordsList *)

\* forbid users and guests to query special filter/sort fields
checkForSuperuserOnlyRuleFields(info) ==
    IF ~HasSuperuserAuth(info) /\ info.Query = FilterSuperuserOnly
    THEN ApiError(400, "Only superusers can filter by this field.")
    ELSE NoErr

\* the condition under which recordsList adds the list rule to the query
ListRuleApplies(f) ==
    /\ ~HasSuperuserAuth(f.requestInfo)
    /\ f.collection.ListRule # Nil
    /\ f.collection.ListRule # ""

\* the rows the search provider returns: the query's WHERE (the applied rule)
\* and the client's filter both hold
ListRows(f, rows) ==
    {r \in rows :
        /\ ("list" \in f.applied => RuleHolds(f.collection.ListRule, r, f.requestInfo))
        /\ (f.requestInfo.Query \in {"", FilterOwner} => FilterHolds(f.requestInfo.Query, r))}

\* on a failure of the random source twice softMax is slept
randomizedThrottle_fallbackDoubled(softMax, randFails) ==
    IF randFails THEN {2 * softMax} ELSE 0..(softMax - 1)

\* randomizedThrottle(softMax): the timeouts it may sleep, in milliseconds;
\* randFails says whether cryptoRand.Int returned an error
randomizedThrottle(softMax, randFails) ==
    IF randFails THEN {softMax} ELSE 0..(softMax - 1)

\* listTimingRateLimitRule.MaxRequests
MaxRequests == 3

\* "@hb_list_timing_check_"+collection.Id
TimingKey(collection) == "@hb_list_timing_check_" \o collection.Id

\* checkRateLimit(e, "@hb_list_timing_check_"+collection.Id, rule): an error
\* once the client has used up the rule's requests in the current window,
\* and the buckets after the call.  For a bucket that is not followed the
\* answer is limited, whatever was used up before.
checkRateLimit(store, key, limited) ==
    IF key \notin DOMAIN store
    THEN [err |-> IF limited THEN ApiError(429, "Too Many Requests.") ELSE NoErr, store |-> store]
    ELSE IF store[key] = 0
    THEN [err |-> ApiError(429, "Too Many Requests."), store |-> store]
    ELSE [err |-> NoErr, store |-> [store EXCEPT ![key] = @ - 1]]

\* the result is not looked at: an empty one is not required
ThrottleCandidate_anyResult(f) ==
    /\ ~HasSuperuserAuth(f.requestInfo)
    /\ f.collection.ListRule # Nil /\ f.collection.ListRule # ""
    /\ f.requestInfo.Query # ""

\* the condition of the randomized throttle, up to the timing rate limit check
ThrottleCandidate(f) ==
    /\ ~HasSuperuserAuth(f.requestInfo)
    /\ f.collection.ListRule # Nil /\ f.collection.ListRule # ""
    /\ f.requestInfo.Query # ""
    /\ f.records = {}

recordsList_collection ==
    /\ h.op = "list" /\ h.pc = "collection"
    /\ \E c \in Collections \cup {NoCollection} :
        h' = IF c = NoCollection
             THEN Return(Stage(h, "ResolveCollection"), ApiError(404, "Missing collection context."))
             ELSE [Goto(Stage(h, "ResolveCollection"), "rateLimit") EXCEPT !.collection = c]
    /\ UNCHANGED <<db, others>>

recordsList_rateLimit ==
    /\ h.op = "list" /\ h.pc = "rateLimit"
    /\ \E limited \in BOOLEAN :
        h' = IF limited
             THEN Return(Stage(h, "RateLimit"), ApiError(429, "Too Many Requests."))
             ELSE Goto(Stage(h, "RateLimit"), "requestInfo")
    /\ UNCHANGED <<db, others>>

recordsList_requestInfo ==
    /\ h.op = "list" /\ h.pc = "requestInfo"
    /\ \/ \E err \in ExtErrs :
            h' = Return(Stage(h, "ParseBody"), firstApiError(err, ApiError(400, "")))
       \/ \E filter \in Filters :
            h' = [Goto(Stage(h, "ParseBody"), "gate") EXCEPT
                    !.requestInfo = [Auth |-> h.auth, Body |-> NoBody, Query |-> filter]]
    /\ UNCHANGED <<db, others>>

recordsList_gate ==
    /\ h.op = "list" /\ h.pc = "gate"
    /\ h' = IF h.collection.ListRule = Nil /\ ~HasSuperuserAuth(h.requestInfo)
            THEN Return(Stage(h, "AuthorizeBaseRule"),
                        ApiError(403, "Only superusers can perform this action."))
            ELSE Goto(Stage(h, "AuthorizeBaseRule"), "superuserOnly")
    /\ UNCHANGED <<db, others>>

\* the error of the check is dropped
recordsList_superuserOnly_errorDropped ==
    /\ h.op = "list" /\ h.pc = "superuserOnly"
    /\ h' = Goto(Stage(h, "SuperuserOnlyFields"), "rule")
    /\ UNCHANGED <<db, others>>

recordsList_superuserOnly ==
    /\ h.op = "list" /\ h.pc = "superuserOnly"
    /\ LET err == checkForSuperuserOnlyRuleFields(h.requestInfo) IN
        h' = IF err # NoErr
             THEN Return(Stage(h, "SuperuserOnlyFields"), err)
             ELSE Goto(Stage(h, "SuperuserOnlyFields"), "rule")
    /\ UNCHANGED <<db, others>>

recordsList_rule ==
    /\ h.op = "list" /\ h.pc = "rule"
    /\ h' = IF ListRuleApplies(h)
            THEN LET f == [Stage(h, "BuildRule") EXCEPT !.built = @ \cup {"list"}, !.resolved = @ \cup {Resolved("list", NewRecordFieldResolver(TRUE))}] IN
                 IF BuildExprFails(h.collection.ListRule)
                 THEN Return([f EXCEPT !.ruleFailed = @ \cup {"list"}], PlainErr)
                 ELSE Goto([f EXCEPT !.applied = @ \cup {"list"}], "exec")
            ELSE Goto(h, "exec")
    /\ UNCHANGED <<db, others>>

recordsList_exec ==
    /\ h.op = "list" /\ h.pc = "exec"
    /\ LET fieldsResolver == SetAllowHiddenFields(NewRecordFieldResolver(TRUE),
                                                  HasSuperuserAuth(h.requestInfo))
           f == [Stage(h, "Query") EXCEPT
                   !.resolved = @ \cup (IF h.requestInfo.Query \in {"", FilterBroken}
                                        THEN {}
                                        ELSE {Resolved("filter", fieldsResolver)})]
       IN
       \/ /\ h.requestInfo.Query = FilterBroken
          /\ h' = Return(f, firstApiError(PlainErr, ApiError(400, "")))
       \/ /\ h.requestInfo.Query # FilterBroken
          /\ \E dbFails \in BOOLEAN :
               h' = IF dbFails
                    THEN Return([f EXCEPT !.ruleFailed = @ \cup (h.applied \cap {"list"}),
                                          !.queryFailed = TRUE],
                                firstApiError(PlainErr, ApiError(400, "")))
                    ELSE [Goto(f, "trigger") EXCEPT
                            !.records = ListRows(h, {db[i] : i \in {j \in Ids : db[j] # NoRecord}})]
    /\ UNCHANGED <<db, others>>

\* Trigger runs the hook chain before the final handler: its handlers call
\* e.Next() down to the final handler, or return nil without calling it, or
\* return an error
recordsList_trigger ==
    /\ h.op = "list" /\ h.pc = "trigger"
    /\ LET f == Stage(h, "Hook") IN
       \/ h' = Goto(f, "final")
       \/ h' = Return(f, NoErr)
       \/ \E err \in ExtErrs : h' = Return(f, err)
    /\ UNCHANGED <<db, others>>

\* return e.JSON(http.StatusOK, e.Result)
ListRespond(f) ==
    Return([Stage(f, "Respond") EXCEPT !.written = [status |-> 200, records |-> f.records]],
           NoErr)

\* the final handler of the list hook chain, up to the response or, when the
\* throttle fires, up to the call of time.Sleep in randomizedThrottle
\* the timing bucket is consulted first, for every request
recordsList_final_checkedFirst ==
    /\ h.op = "list" /\ h.pc = "final"
    /\ \/ /\ \E err \in ExtErrs :
               h' = Return(Stage(h, "Enrich"),
                           firstApiError(err, ApiError(500, "Failed to enrich records")))
          /\ UNCHANGED timing
       \/ \E limited \in BOOLEAN, randFails \in BOOLEAN :
          \E timeout \in randomizedThrottle(150, randFails) :
            LET f == Stage(h, "Enrich")
                check == checkRateLimit(timing, TimingKey(h.collection), limited) IN
            /\ h' = IF check.err # NoErr /\ ThrottleCandidate(h)
                    THEN Goto([f EXCEPT !.timingCheck = "limited", !.throttle = timeout,
                                        !.randErr = randFails], "sleep")
                    ELSE ListRespond([f EXCEPT !.timingCheck = IF check.err # NoErr THEN "limited" ELSE "ok"])
            /\ timing' = check.store
    /\ UNCHANGED <<db, w, apart>>

recordsList_final ==
    /\ h.op = "list" /\ h.pc = "final"
    /\ \/ /\ \E err \in ExtErrs :
               h' = Return(Stage(h, "Enrich"),
                           firstApiError(err, ApiError(500, "Failed to enrich records")))
          /\ UNCHANGED timing
       \/ \E limited \in BOOLEAN, randFails \in BOOLEAN :
          \E timeout \in randomizedThrottle(150, randFails) :
            LET f == Stage(h, "Enrich")
                check == checkRateLimit(timing, TimingKey(h.collection), limited) IN
            /\ h' = IF ThrottleCandidate(h)
                    THEN IF check.err # NoErr
                         THEN Goto([f EXCEPT !.timingCheck = "limited", !.throttle = timeout,
                                             !.randErr = randFails], "sleep")
                         ELSE ListRespond([f EXCEPT !.timingCheck = "ok"])
                    ELSE ListRespond(f)
            /\ timing' = IF ThrottleCandidate(h) THEN check.store ELSE timing
    /\ UNCHANGED <<db, w, apart>>

\* time.Sleep has returned: randomizedThrottle returns and the handler responds
recordsList_sleep ==
    /\ h.op = "list" /\ h.pc = "sleep"
    /\ h' = ListRespond(h)
    /\ UNCHANGED <<db, others>>

----------------------------------------------------------------------------
(* Collaborators *)

\* App.FindRecordById(collection, f.recordId, ruleFunc): applies says whether
\* ruleFunc adds the rule of the slot to the query.  The result is the frame
\* (with the fetched record) and whether a record came back without error.
FindRecordById(f, slot, rule, applies, dbFails) ==
    LET f0 == [f EXCEPT !.record = NoRecord]
        f1 == IF applies THEN [f0 EXCEPT !.built = @ \cup {slot}, !.resolved = @ \cup {Resolved(slot, NewRecordFieldResolver(TRUE))}] ELSE f0 IN
    IF applies /\ BuildExprFails(rule)
    THEN [found |-> FALSE, f |-> [f1 EXCEPT !.ruleFailed = @ \cup {slot}]]
    ELSE LET f2 == IF applies THEN [f1 EXCEPT !.applied = @ \cup {slot}] ELSE f1
             row == db[f.recordId]
         IN IF dbFails
            THEN [found |-> FALSE,
                  f |-> [f2 EXCEPT !.ruleFailed = @ \cup (f2.applied \cap {slot}),
                                   !.queryFailed = TRUE]]
            ELSE IF row # NoRecord /\ (applies => RuleHolds(rule, row, f.requestInfo))
                 THEN [found |-> TRUE, f |-> [f2 EXCEPT !.record = row]]
                 ELSE [found |-> FALSE, f |-> f2]

----------------------------------------------------------------------------
(* forms.RecordUpsert access level and hasAuthManageAccess *)

\* form.HasManageAccess(): the form was granted manager or superuser access
HasManageAccess(form) == form \in {"manager", "superuser"}

\* forms.NewRecordUpsert(app, record), with GrantSuperuserAccess for a superuser
NewRecordUpsert(info) == IF HasSuperuserAuth(info) THEN "superuser" ELSE "default"

\* form.Load(data) on the form's record
Load(record, data) == [record EXCEPT !.owner = data.owner, !.verified = data.verified]

----------------------------------------------------------------------------
(* Submitted data: maps are functions from keys to values, the value of a  *)
(* file field is a sequence of file names                                  *)

EmptyMap == <<>>

Get(m, k) == IF k \in DOMAIN m THEN m[k] ELSE <<>>

Put(m, k, v) == [x \in DOMAIN m \cup {k} |-> IF x = k THEN v ELSE m[x]]

Remove(m, ks) == [x \in DOMAIN m \ ks |-> m[x]]

\* core.FieldNamePassword
FieldNamePassword == "password"

FieldTypeFile == "file"

Field(name, type, hidden) == [name |-> name, type |-> type, hidden |-> hidden]

\* collection.Fields of the record collections of the handlers above
RecordFields == <<Field("owner", "text", FALSE), Field("verified", "bool", FALSE)>>

\* collection.Fields of a collection with a hidden text field, the password
\* field, a file field and a hidden file field
UploadFields ==
    <<Field("title", "text", FALSE), Field("secret", "text", TRUE),
      Field(FieldNamePassword, "password", TRUE),
      Field("doc", FieldTypeFile, FALSE), Field("avatar", FieldTypeFile, TRUE)>>

FileFieldNames(fields) ==
    {fields[i].name : i \in {j \in 1..Len(fields) : fields[j].type = FieldTypeFile}}

\* the keys of field baseKey in the order extractUploadedFiles looks them
\* up: the field name, the prepend and the append modifier
UploadKeys(baseKey) == <<baseKey, "+" \o baseKey, baseKey \o "+">>

\* strings.HasPrefix(k, "+"), strings.HasSuffix(k, "+") and
\* strings.HasSuffix(k, "-") for the keys of the fields
HasPlusPrefix(fields, k) == \E n \in FileFieldNames(fields) : k = "+" \o n

HasPlusSuffix(fields, k) == \E n \in FileFieldNames(fields) : k = n \o "+"

HasMinusSuffix(fields, k) == \E n \in FileFieldNames(fields) : k = n \o "-"

IsModifierKey(fields, k) ==
    HasPlusPrefix(fields, k) \/ HasPlusSuffix(fields, k) \/ HasMinusSuffix(fields, k)

\* the field a modifier key stands for
FieldOfKey(fields, k) ==
    IF IsModifierKey(fields, k)
    THEN CHOOSE n \in FileFieldNames(fields) : k \in {"+" \o n, n \o "+", n \o "-"}
    ELSE k

\* the elements of seq that are not in the set gone
RECURSIVE Without(_, _)
Without(seq, gone) ==
    IF seq = <<>> THEN <<>>
    ELSE IF Head(seq) \in gone THEN Without(Tail(seq), gone)
    ELSE <<Head(seq)>> \o Without(Tail(seq), gone)

\* record.ReplaceModifiers(data) on a new record: every modifier key is
\* folded into the key of its field (prepended values, then the plain
\* value, then appended values, without the removed ones)
ReplaceModifiers(fields, data) ==
    IF \A k \in DOMAIN data : ~IsModifierKey(fields, k)
    THEN data
    ELSE [n \in {FieldOfKey(fields, k) : k \in DOMAIN data} |->
            IF n \in FileFieldNames(fields)
            THEN Without(Get(data, "+" \o n) \o Get(data, n) \o Get(data, n \o "+"),
                         {Get(data, n \o "-")[i] : i \in 1..Len(Get(data, n \o "-"))})
            ELSE data[n]]

\* what re.FindUploadedFiles(k) gives for the outcome of the lookup of a key
ErrMissingFile == "http: no such file"

ErrLookup == "lookup failed"

Outcomes == {"missing", "failed", "file"}

FindUploadedFiles(lookups, k) ==
    LET outcome == IF k \in DOMAIN lookups THEN lookups[k] ELSE "missing" IN
    CASE outcome = "file" -> [files |-> <<"up_" \o k>>, err |-> ""]
      [] outcome = "failed" -> [files |-> <<>>, err |-> ErrLookup]
      [] OTHER -> [files |-> <<>>, err |-> ErrMissingFile]

\* the request as far as the two functions read it
Upload(multipart, lookups) == [multipart |-> multipart, lookups |-> lookups]

NoUpload == Upload(FALSE, EmptyMap)

\* the (map, error) pair a function returns
Pair(isNil, result, err) == [isNil |-> isNil, result |-> result, err |-> err]

\* the loop over the keys of one field from key number i on; acc is the
\* result so far
RECURSIVE extractKeys(_, _, _, _, _)
extractKeys(re, prefix, keys, i, acc) ==
    IF i > Len(keys) THEN Pair(FALSE, acc, "")
    ELSE LET k == IF prefix # "" THEN prefix \o "." \o keys[i] ELSE keys[i]
             found == FindUploadedFiles(re.lookups, k) IN
         IF found.err # "" /\ found.err # ErrMissingFile
         THEN Pair(TRUE, EmptyMap, found.err)
         ELSE extractKeys(re, prefix, keys, i + 1,
                          IF Len(found.files) > 0 THEN Put(acc, k, found.files) ELSE acc)

\* the loop over collection.Fields from field number j on
RECURSIVE extractFields(_, _, _, _, _)
extractFields(re, fields, prefix, j, acc) ==
    IF j > Len(fields) THEN Pair(FALSE, acc, "")
    ELSE IF fields[j].type # FieldTypeFile
    THEN extractFields(re, fields, prefix, j + 1, acc)
    ELSE LET r == extractKeys(re, prefix, UploadKeys(fields[j].name), 1, acc) IN
         IF r.err # "" THEN r
         ELSE extractFields(re, fields, prefix, j + 1, r.result)

\* the key lookup that takes every error, a missing file too, for a failure
extractUploadedFiles_missingIsError(re, fields, prefix) ==
    IF ~re.multipart THEN Pair(TRUE, EmptyMap, "")
    ELSE LET keys == {IF prefix # "" THEN prefix \o "." \o UploadKeys(n)[i] ELSE UploadKeys(n)[i] :
                        n \in FileFieldNames(fields), i \in 1..3} IN
         IF \E k \in keys : FindUploadedFiles(re.lookups, k).err # ""
         THEN Pair(TRUE, EmptyMap, ErrLookup)
         ELSE extractFields(re, fields, prefix, 1, EmptyMap)

extractUploadedFiles(re, fields, prefix) ==
    IF ~re.multipart
    THEN Pair(TRUE, EmptyMap, "")
    ELSE extractFields(re, fields, prefix, 1, EmptyMap)

\* lines 996-1020: the uploaded files of the keys ks merged into result
RECURSIVE mergeUploaded(_, _, _, _, _)
mergeUploaded(fields, body, uploadedFiles, ks, result) ==
    IF ks = {} THEN result
    ELSE LET k == CHOOSE x \in ks : TRUE
             existing == IF k \in DOMAIN body
                            /\ ~HasPlusPrefix(fields, k)
                            /\ ~HasPlusSuffix(fields, k)
                            /\ ~HasMinusSuffix(fields, k)
                         THEN body[k] ELSE <<>>
         IN mergeUploaded(fields, body, uploadedFiles, ks \ {k},
                          Put(result, k, existing \o uploadedFiles[k]))

\* the names deleted from the data of a caller who is not a superuser
HiddenNames(fields, isAuth) ==
    {fields[i].name : i \in {j \in 1..Len(fields) :
        fields[j].hidden /\ ~(isAuth /\ fields[j].name = FieldNamePassword)}}

\* the hidden fields are unset before the uploaded files are merged
recordDataFromRequest_filterFirst(info, re, fields, isAuth) ==
    LET result == ReplaceModifiers(fields, info.Body)
        cut == IF HasSuperuserAuth(info) THEN result ELSE Remove(result, HiddenNames(fields, isAuth))
        uploaded == extractUploadedFiles(re, fields, "") IN
    IF uploaded.err # "" THEN Pair(TRUE, EmptyMap, uploaded.err)
    ELSE Pair(FALSE,
              IF DOMAIN uploaded.result # {}
              THEN ReplaceModifiers(fields, mergeUploaded(fields, info.Body, uploaded.result,
                                                          DOMAIN uploaded.result, cut))
              ELSE cut, "")

\* recordDataFromRequest(e, record), e.RequestInfo() having succeeded
recordDataFromRequest(info, re, fields, isAuth) ==
    LET result == ReplaceModifiers(fields, info.Body)
        uploaded == extractUploadedFiles(re, fields, "") IN
    IF uploaded.err # "" THEN Pair(TRUE, EmptyMap, uploaded.err)
    ELSE LET merged == IF DOMAIN uploaded.result # {}
                       THEN ReplaceModifiers(fields, mergeUploaded(fields, info.Body, uploaded.result,
                                                                   DOMAIN uploaded.result, result))
                       ELSE result
             hidden == HiddenNames(fields, isAuth) \cap DOMAIN merged IN
         Pair(FALSE,
              IF ~HasSuperuserAuth(info) /\ hidden # {} THEN Remove(merged, hidden) ELSE merged,
              "")

\* the result of the query is taken without looking at its error
hasAuthManageAccess_errorIgnored(f, collection, row, dbFails) ==
    IF ~IsAuth(collection)
    THEN [ok |-> FALSE, f |-> f]
    ELSE IF collection.ManageRule = Nil \/ collection.ManageRule = ""
    THEN [ok |-> FALSE, f |-> f]
    ELSE IF f.requestInfo.Auth = ""
    THEN [ok |-> FALSE, f |-> f]
    ELSE LET f1 == [f EXCEPT !.built = @ \cup {"manage"}, !.resolved = @ \cup {Resolved("manage", NewRecordFieldResolver(TRUE))}] IN
         IF BuildExprFails(collection.ManageRule)
         THEN [ok |-> FALSE, f |-> [f1 EXCEPT !.ruleFailed = @ \cup {"manage"}]]
         ELSE LET f2 == [f1 EXCEPT !.applied = @ \cup {"manage"},
                                   !.ruleQueries = @ \cup {"manage"}] IN
              IF dbFails
              THEN [ok |-> TRUE, f |-> [f2 EXCEPT !.ruleFailed = @ \cup {"manage"}]]
              ELSE [ok |-> row # NoRecord /\ RuleHolds(collection.ManageRule, row, f.requestInfo),
                    f  |-> f2]

\* the collection type is not looked at
hasAuthManageAccess_anyType(f, collection, row, dbFails) ==
    IF collection.ManageRule = Nil \/ collection.ManageRule = ""
    THEN [ok |-> FALSE, f |-> f]
    ELSE IF f.requestInfo.Auth = ""
    THEN [ok |-> FALSE, f |-> f]
    ELSE LET f1 == [f EXCEPT !.built = @ \cup {"manage"}, !.resolved = @ \cup {Resolved("manage", NewRecordFieldResolver(TRUE))}] IN
         IF BuildExprFails(collection.ManageRule)
         THEN [ok |-> FALSE, f |-> [f1 EXCEPT !.ruleFailed = @ \cup {"manage"}]]
         ELSE LET f2 == [f1 EXCEPT !.applied = @ \cup {"manage"},
                                   !.ruleQueries = @ \cup {"manage"}] IN
              IF dbFails
              THEN [ok |-> FALSE, f |-> [f2 EXCEPT !.ruleFailed = @ \cup {"manage"}]]
              ELSE [ok |-> row # NoRecord /\ RuleHolds(collection.ManageRule, row, f.requestInfo),
                    f  |-> f2]

\* hasAuthManageAccess(app, requestInfo, collection, query): row is the row
\* the query selects from (NoRecord: the query selects nothing).  The result
\* is the returned bool and the frame with what the call did.
hasAuthManageAccess(f, collection, row, dbFails) ==
    IF ~IsAuth(collection)
    THEN [ok |-> FALSE, f |-> f]
    ELSE IF collection.ManageRule = Nil \/ collection.ManageRule = ""
    THEN [ok |-> FALSE, f |-> f]
    ELSE IF f.requestInfo.Auth = ""
    THEN [ok |-> FALSE, f |-> f]
    ELSE LET f1 == [f EXCEPT !.built = @ \cup {"manage"}, !.resolved = @ \cup {Resolved("manage", NewRecordFieldResolver(TRUE))}] IN
         IF BuildExprFails(collection.ManageRule)
         THEN [ok |-> FALSE, f |-> [f1 EXCEPT !.ruleFailed = @ \cup {"manage"}]]
         ELSE LET f2 == [f1 EXCEPT !.applied = @ \cup {"manage"},
                                   !.ruleQueries = @ \cup {"manage"}] IN
              IF dbFails
              THEN [ok |-> FALSE, f |-> [f2 EXCEPT !.ruleFailed = @ \cup {"manage"}]]
              ELSE [ok |-> row # NoRecord /\ RuleHolds(collection.ManageRule, row, f.requestInfo),
                    f  |-> f2]

\* the inline call leaves isOptFinalizerCalled false
InlineFinalizer_flagNotSet(f, fin) ==
    IF f.optFinalizer # "nil"
    THEN LET g == [Stage(f, "Finalizer") EXCEPT !.finalizerCalls = @ + 1]
         IN IF fin # NoErr
            THEN Return(g, firstApiError(fin, ApiError(500, "")))
            ELSE Goto(g, "afterHook")
    ELSE Goto(f, "afterHook")

\* the call after Trigger does not look at isOptFinalizerCalled
OuterFinalizer_flagIgnored(f, fin) ==
    IF f.optFinalizer # "nil"
    THEN LET g == [Stage(f, "Finalizer") EXCEPT !.finalizerCalls = @ + 1]
         IN IF fin # NoErr
            THEN Return(g, firstApiError(fin, ApiError(500, "")))
            ELSE Return(g, NoErr)
    ELSE Return(f, NoErr)

\* the inline call of optFinalizer at the end of a final hook handler, and
\* the handler's return after it; fin is what the finalizer returns
InlineFinalizer(f, fin) ==
    IF f.optFinalizer # "nil"
    THEN LET g == [Stage(f, "Finalizer") EXCEPT
                     !.isOptFinalizerCalled = TRUE,
                     !.finalizerCalls = @ + 1]
         IN IF fin # NoErr
            THEN Return(g, firstApiError(fin, ApiError(500, "")))
            ELSE Goto(g, "afterHook")
    ELSE Goto(f, "afterHook")

\* the call of optFinalizer after Trigger returned nil
OuterFinalizer(f, fin) ==
    IF ~f.isOptFinalizerCalled /\ f.optFinalizer # "nil"
    THEN LET g == [Stage(f, "Finalizer") EXCEPT !.finalizerCalls = @ + 1]
         IN IF fin # NoErr
            THEN Return(g, firstApiError(fin, ApiError(500, "")))
            ELSE Return(g, NoErr)
    ELSE Return(f, NoErr)

----------------------------------------------------------------------------
(* recordView *)

\* the condition under which recordView's ruleFunc adds the view rule
ViewRuleApplies(f) ==
    /\ ~HasSuperuserAuth(f.requestInfo)
    /\ f.collection.ViewRule # Nil
    /\ f.collection.ViewRule # ""

recordView_collection ==
    /\ h.op = "view" /\ h.pc = "collection"
    /\ \E c \in Collections \cup {NoCollection} :
        h' = IF c = NoCollection
             THEN Return(Stage(h, "ResolveCollection"), ApiError(404, "Missing collection context."))
             ELSE [Goto(Stage(h, "ResolveCollection"), "rateLimit") EXCEPT !.collection = c]
    /\ UNCHANGED <<db, others>>

recordView_rateLimit ==
    /\ h.op = "view" /\ h.pc = "rateLimit"
    /\ \E limited \in BOOLEAN :
        h' = IF limited
             THEN Return(Stage(h, "RateLimit"), ApiError(429, "Too Many Requests."))
             ELSE Goto(Stage(h, "RateLimit"), "recordId")
    /\ UNCHANGED <<db, others>>

recordView_recordId ==
    /\ h.op = "view" /\ h.pc = "recordId"
    /\ \E id \in {0} \cup Ids :
        h' = IF id = 0
             THEN Return(h, ApiError(404, ""))
             ELSE [Goto(h, "requestInfo") EXCEPT !.recordId = id]
    /\ UNCHANGED <<db, others>>

recordView_requestInfo ==
    /\ h.op = "view" /\ h.pc = "requestInfo"
    /\ \/ \E err \in ExtErrs :
            h' = Return(Stage(h, "ParseBody"), firstApiError(err, ApiError(400, "")))
       \/ h' = [Goto(Stage(h, "ParseBody"), "gate") EXCEPT
                    !.requestInfo = [Auth |-> h.auth, Body |-> NoBody, Query |-> ""]]
    /\ UNCHANGED <<db, others>>

recordView_gate ==
    /\ h.op = "view" /\ h.pc = "gate"
    /\ h' = IF h.collection.ViewRule = Nil /\ ~HasSuperuserAuth(h.requestInfo)
            THEN Return(Stage(h, "AuthorizeBaseRule"),
                        ApiError(403, "Only superusers can perform this action."))
            ELSE Goto(Stage(h, "AuthorizeBaseRule"), "fetch")
    /\ UNCHANGED <<db, others>>

recordView_fetch ==
    /\ h.op = "view" /\ h.pc = "fetch"
    /\ \E dbFails \in BOOLEAN :
        LET r == FindRecordById(Stage(h, "Query"), "view", h.collection.ViewRule,
                                ViewRuleApplies(h), dbFails)
        IN h' = IF r.found
                THEN Goto(r.f, "trigger")
                ELSE Return(r.f, firstApiError(NoErr, ApiError(404, "")))
    /\ UNCHANGED <<db, others>>

recordView_trigger ==
    /\ h.op = "view" /\ h.pc = "trigger"
    /\ LET f == Stage(h, "Hook") IN
       \/ h' = Goto(f, "final")
       \/ h' = Return(f, NoErr)
       \/ \E err \in ExtErrs : h' = Return(f, err)
    /\ UNCHANGED <<db, others>>

\* the record is written to the response before it is enriched
recordView_final_respondFirst ==
    /\ h.op = "view" /\ h.pc = "final"
    /\ \/ \E err \in ExtErrs :
            h' = Return(Stage(h, "Enrich"),
                        firstApiError(err, ApiError(500, "Failed to enrich record")))
       \/ h' = Return([Stage(Stage(h, "Respond"), "Enrich") EXCEPT
                        !.written = [status |-> 200, records |-> {h.record}]], NoErr)
    /\ UNCHANGED <<db, others>>

recordView_final ==
    /\ h.op = "view" /\ h.pc = "final"
    /\ \/ \E err \in ExtErrs :
            h' = Return(Stage(h, "Enrich"),
                        firstApiError(err, ApiError(500, "Failed to enrich record")))
       \/ h' = Return([Stage(Stage(h, "Enrich"), "Respond") EXCEPT
                        !.written = [status |-> 200, records |-> {h.record}]], NoErr)
    /\ UNCHANGED <<db, others>>

----------------------------------------------------------------------------
(* recordDelete *)

\* the empty rule is not told apart from a rule expression
DeleteRuleApplies_emptyApplied(f) ==
    /\ ~HasSuperuserAuth(f.requestInfo)
    /\ f.collection.DeleteRule # Nil

\* the condition under which recordDelete's ruleFunc adds the delete rule
DeleteRuleApplies(f) ==
    /\ ~HasSuperuserAuth(f.requestInfo)
    /\ f.collection.DeleteRule # Nil
    /\ f.collection.DeleteRule # ""

recordDelete_collection ==
    /\ h.op = "delete" /\ h.pc = "collection"
    /\ \E c \in Collections \cup {NoCollection} :
        h' = IF c = NoCollection
             THEN Return(Stage(h, "ResolveCollection"), ApiError(404, "Missing collection context."))
             ELSE IF IsView(c)
             THEN Return([Stage(h, "ResolveCollection") EXCEPT !.collection = c],
                         ApiError(400, "Unsupported collection type."))
             ELSE [Goto(Stage(h, "ResolveCollection"), "rateLimit") EXCEPT !.collection = c]
    /\ UNCHANGED <<db, others>>

recordDelete_rateLimit ==
    /\ h.op = "delete" /\ h.pc = "rateLimit"
    /\ \E limited \in BOOLEAN :
        h' = IF limited
             THEN Return(Stage(h, "RateLimit"), ApiError(429, "Too Many Requests."))
             ELSE Goto(Stage(h, "RateLimit"), "recordId")
    /\ UNCHANGED <<db, others>>

recordDelete_recordId ==
    /\ h.op = "delete" /\ h.pc = "recordId"
    /\ \E id \in {0} \cup Ids :
        h' = IF id = 0
             THEN Return(h, ApiError(404, ""))
             ELSE [Goto(h, "requestInfo") EXCEPT !.recordId = id]
    /\ UNCHANGED <<db, others>>

recordDelete_requestInfo ==
    /\ h.op = "delete" /\ h.pc = "requestInfo"
    /\ \/ \E err \in ExtErrs :
            h' = Return(Stage(h, "ParseBody"), firstApiError(err, ApiError(400, "")))
       \/ h' = [Goto(Stage(h, "ParseBody"), "gate") EXCEPT
                    !.requestInfo = [Auth |-> h.auth, Body |-> NoBody, Query |-> ""]]
    /\ UNCHANGED <<db, others>>

\* the gate reads the update rule slot instead of the delete rule slot
recordDelete_gate_wrongSlot ==
    /\ h.op = "delete" /\ h.pc = "gate"
    /\ h' = IF ~HasSuperuserAuth(h.requestInfo) /\ h.collection.UpdateRule = Nil
            THEN Return(Stage(h, "AuthorizeBaseRule"),
                        ApiError(403, "Only superusers can perform this action."))
            ELSE Goto(Stage(h, "AuthorizeBaseRule"), "fetch")
    /\ UNCHANGED <<db, others>>

recordDelete_gate ==
    /\ h.op = "delete" /\ h.pc = "gate"
    /\ h' = IF ~HasSuperuserAuth(h.requestInfo) /\ h.collection.DeleteRule = Nil
            THEN Return(Stage(h, "AuthorizeBaseRule"),
                        ApiError(403, "Only superusers can perform this action."))
            ELSE Goto(Stage(h, "AuthorizeBaseRule"), "fetch")
    /\ UNCHANGED <<db, others>>

recordDelete_fetch ==
    /\ h.op = "delete" /\ h.pc = "fetch"
    /\ \E dbFails \in BOOLEAN :
        LET r == FindRecordById(Stage(h, "Query"), "delete", h.collection.DeleteRule,
                                DeleteRuleApplies(h), dbFails)
        IN h' = IF r.found
                THEN Goto(r.f, "trigger")
                ELSE Return(r.f, ApiError(404, ""))
    /\ UNCHANGED <<db, others>>

\* recordDelete's Trigger with the deletion done by the hook dispatch itself
\* rather than by the final handler: a stopped chain still deletes the row
recordDelete_trigger_deletesOnStop ==
    /\ h.op = "delete" /\ h.pc = "trigger"
    /\ LET f == Stage(h, "Hook") IN
       \/ h' = Goto(f, "final") /\ UNCHANGED db
       \/ /\ h' = Goto([f EXCEPT !.submitted = TRUE], "afterHook")
          /\ db' = [db EXCEPT ![h.record.id] = NoRecord]
       \/ \E err \in ExtErrs : h' = Return(f, err) /\ UNCHANGED db
    /\ UNCHANGED others

recordDelete_trigger ==
    /\ h.op = "delete" /\ h.pc = "trigger"
    /\ LET f == Stage(h, "Hook") IN
       \/ h' = Goto(f, "final")
       \/ h' = Goto(f, "afterHook")
       \/ \E err \in ExtErrs : h' = Return(f, err)
    /\ UNCHANGED <<db, others>>

\* the delete is answered like the other writes, with 200 and the record
recordDelete_final_status200 ==
    /\ h.op = "delete" /\ h.pc = "final"
    /\ \/ \E err \in ExtErrs :
            /\ h' = Return(Stage(h, "Persist"),
                           firstApiError(err, ApiError(400, "Failed to delete record. Make sure that the record is not part of a required relation reference.")))
            /\ UNCHANGED <<db, others>>
       \/ \E fin \in {NoErr} \cup ExtErrs :
            /\ db' = [db EXCEPT ![h.record.id] = NoRecord]
            /\ UNCHANGED others
            /\ h' = InlineFinalizer([Stage(Stage(h, "Persist"), "Respond") EXCEPT
                                       !.submitted = TRUE,
                                       !.written = [status |-> 200, records |-> {h.record}]], fin)

\* the final handler of the delete hook chain
recordDelete_final ==
    /\ h.op = "delete" /\ h.pc = "final"
    /\ \/ \E err \in ExtErrs :
            /\ h' = Return(Stage(h, "Persist"),
                           firstApiError(err, ApiError(400, "Failed to delete record. Make sure that the record is not part of a required relation reference.")))
            /\ UNCHANGED <<db, others>>
       \/ \E err \in ExtErrs :
            /\ db' = [db EXCEPT ![h.record.id] = NoRecord]
            /\ UNCHANGED others
            /\ h' = Return([Stage(Stage(h, "Persist"), "Respond") EXCEPT !.submitted = TRUE], err)
       \/ \E fin \in {NoErr} \cup ExtErrs :
            /\ db' = [db EXCEPT ![h.record.id] = NoRecord]
            /\ UNCHANGED others
            /\ h' = InlineFinalizer([Stage(Stage(h, "Persist"), "Respond") EXCEPT
                                       !.submitted = TRUE,
                                       !.written = [status |-> 204, records |-> {}]], fin)

\* after Trigger returned nil
recordDelete_afterHook ==
    /\ h.op = "delete" /\ h.pc = "afterHook"
    /\ \E fin \in {NoErr} \cup ExtErrs : h' = OuterFinalizer(h, fin)
    /\ UNCHANGED <<db, others>>

----------------------------------------------------------------------------
(* recordCreate *)

\* id of the dummy record when the submitted record has none ("__temp_id__...")
TempId == -1

dummyRandomPart == "__hb_create__"

\* the check is made for superusers as well
CreateCheckApplies_superuserToo(f) == f.collection.CreateRule # Nil

\* the condition under which the final create handler checks the record
\* against the create and manage rules
CreateCheckApplies(f) ==
    ~HasSuperuserAuth(f.requestInfo) /\ f.collection.CreateRule # Nil

\* verified is left as submitted
DummyRecord_verifiedKept(record) ==
    [record EXCEPT !.id = IF @ = 0 THEN TempId ELSE @]

\* the dummy record: a clone with an id and with verified unset
DummyRecord(record) ==
    [record EXCEPT !.id = IF @ = 0 THEN TempId ELSE @, !.verified = FALSE]

\* the shallow clone of the collection the rules are resolved against
DummyCollection(c) ==
    [c EXCEPT !.Id = @ \o dummyRandomPart, !.Name = @ \o dummyRandomPart]

\* the error of every failure of the create rule check
CreateCheckError == ApiError(400, "Failed to create record")

recordCreate_collection ==
    /\ h.op = "create" /\ h.pc = "collection"
    /\ \E c \in Collections \cup {NoCollection} :
        h' = IF c = NoCollection
             THEN Return(Stage(h, "ResolveCollection"), ApiError(404, "Missing collection context."))
             ELSE IF IsView(c)
             THEN Return([Stage(h, "ResolveCollection") EXCEPT !.collection = c],
                         ApiError(400, "Unsupported collection type."))
             ELSE [Goto(Stage(h, "ResolveCollection"), "rateLimit") EXCEPT !.collection = c]
    /\ UNCHANGED <<db, others>>

recordCreate_rateLimit ==
    /\ h.op = "create" /\ h.pc = "rateLimit"
    /\ \E limited \in BOOLEAN :
        h' = IF limited
             THEN Return(Stage(h, "RateLimit"), ApiError(429, "Too Many Requests."))
             ELSE Goto(Stage(h, "RateLimit"), "requestInfo")
    /\ UNCHANGED <<db, others>>

recordCreate_requestInfo ==
    /\ h.op = "create" /\ h.pc = "requestInfo"
    /\ \/ \E err \in ExtErrs :
            h' = Return(Stage(h, "ParseBody"), firstApiError(err, ApiError(400, "")))
       \/ \E body \in Bodies :
            h' = [Goto(Stage(h, "ParseBody"), "gate") EXCEPT
                    !.requestInfo = [Auth |-> h.auth, Body |-> body, Query |-> ""]]
    /\ UNCHANGED <<db, others>>

recordCreate_gate ==
    /\ h.op = "create" /\ h.pc = "gate"
    /\ h' = IF ~HasSuperuserAuth(h.requestInfo) /\ h.collection.CreateRule = Nil
            THEN Return(Stage(h, "AuthorizeBaseRule"),
                        ApiError(403, "Only superusers can perform this action."))
            ELSE Goto(Stage(h, "AuthorizeBaseRule"), "data")
    /\ UNCHANGED <<db, others>>

recordCreate_data ==
    /\ h.op = "create" /\ h.pc = "data"
    /\ \/ \E err \in ExtErrs :
            h' = Return(h, firstApiError(err, ApiError(400, "Failed to read the submitted data.")))
       \/ LET data == recordDataFromRequest(h.requestInfo, NoUpload, RecordFields, IsAuth(h.collection)).result IN
            h' = [Goto(h, "trigger") EXCEPT
                    !.data = data,
                    !.requestInfo.Body = data,
                    !.form = NewRecordUpsert(h.requestInfo),
                    !.record = Load(NoRecord, data)]
    /\ UNCHANGED <<db, others>>

recordCreate_trigger ==
    /\ h.op = "create" /\ h.pc = "trigger"
    /\ LET f == Stage(h, "Hook") IN
       \/ h' = Goto(f, "dummy")
       \/ h' = Goto(f, "afterHook")
       \/ \E err \in ExtErrs : h' = Return(f, err)
    /\ UNCHANGED <<db, others>>

\* the id, the name, the temporary id and verified = false are written into
\* the event's own collection and record
recordCreate_dummy_inPlace ==
    /\ h.op = "create" /\ h.pc = "dummy"
    /\ \/ /\ CreateCheckApplies(h)
          /\ h' = Return([Stage(h, "RuleCheck") EXCEPT
                            !.dummyRecord = DummyRecord(h.record),
                            !.record = DummyRecord(h.record),
                            !.createCheck = "export error"], CreateCheckError)
       \/ /\ CreateCheckApplies(h)
          /\ h' = [Goto(Stage(h, "RuleCheck"), "createRule") EXCEPT
                     !.dummyRecord = DummyRecord(h.record),
                     !.record = DummyRecord(h.record),
                     !.dummyCollection = DummyCollection(h.collection),
                     !.collection = DummyCollection(h.collection)]
       \/ /\ ~CreateCheckApplies(h)
          /\ h' = Goto(h, "submit")
    /\ UNCHANGED <<db, others>>

recordCreate_dummy ==
    /\ h.op = "create" /\ h.pc = "dummy"
    /\ \/ /\ CreateCheckApplies(h)
          /\ h' = Return([Stage(h, "RuleCheck") EXCEPT
                            !.dummyRecord = DummyRecord(h.record),
                            !.createCheck = "export error"], CreateCheckError)
       \/ /\ CreateCheckApplies(h)
          /\ h' = [Goto(Stage(h, "RuleCheck"), "createRule") EXCEPT
                     !.dummyRecord = DummyRecord(h.record),
                     !.dummyCollection = DummyCollection(h.collection)]
       \/ /\ ~CreateCheckApplies(h)
          /\ h' = Goto(h, "submit")
    /\ UNCHANGED <<db, others>>

\* a rule that is false for the dummy record does not stop the handler
recordCreate_createRule_falseGoesOn ==
    /\ h.op = "create" /\ h.pc = "createRule"
    /\ \E dbFails \in BOOLEAN :
        h' = IF h.dummyCollection.CreateRule # ""
             THEN LET f1 == [h EXCEPT !.built = @ \cup {"create"}, !.resolved = @ \cup {Resolved("create", NewRecordFieldResolver(TRUE))}] IN
                  IF BuildExprFails(h.dummyCollection.CreateRule)
                  THEN Return([f1 EXCEPT !.ruleFailed = @ \cup {"create"},
                                         !.createCheck = "build error"], CreateCheckError)
                  ELSE LET f2 == [f1 EXCEPT !.applied = @ \cup {"create"},
                                            !.ruleQueries = @ \cup {"create"}] IN
                       IF dbFails
                       THEN Return([f2 EXCEPT !.ruleFailed = @ \cup {"create"},
                                              !.createCheck = "query error"], CreateCheckError)
                       ELSE IF ~RuleHolds(h.dummyCollection.CreateRule, h.dummyRecord, h.requestInfo)
                       THEN Goto([f2 EXCEPT !.createCheck = "false"], "manageRule")
                       ELSE Goto([f2 EXCEPT !.createCheck = "passed"], "manageRule")
             ELSE Goto([h EXCEPT !.createCheck = "empty"], "manageRule")
    /\ UNCHANGED <<db, others>>

\* the error of a failed rule build is returned as it is
recordCreate_createRule_rawBuildError ==
    /\ h.op = "create" /\ h.pc = "createRule"
    /\ \E dbFails \in BOOLEAN :
        h' = IF h.dummyCollection.CreateRule # ""
             THEN LET f1 == [h EXCEPT !.built = @ \cup {"create"}, !.resolved = @ \cup {Resolved("create", NewRecordFieldResolver(TRUE))}] IN
                  IF BuildExprFails(h.dummyCollection.CreateRule)
                  THEN Return([f1 EXCEPT !.ruleFailed = @ \cup {"create"},
                                         !.createCheck = "build error"], PlainErr)
                  ELSE LET f2 == [f1 EXCEPT !.applied = @ \cup {"create"},
                                            !.ruleQueries = @ \cup {"create"}] IN
                       IF dbFails
                       THEN Return([f2 EXCEPT !.ruleFailed = @ \cup {"create"},
                                              !.createCheck = "query error"], CreateCheckError)
                       ELSE IF ~RuleHolds(h.dummyCollection.CreateRule, h.dummyRecord, h.requestInfo)
                       THEN Return([f2 EXCEPT !.createCheck = "false"], CreateCheckError)
                       ELSE Goto([f2 EXCEPT !.createCheck = "passed"], "manageRule")
             ELSE Goto([h EXCEPT !.createCheck = "empty"], "manageRule")
    /\ UNCHANGED <<db, others>>

recordCreate_createRule ==
    /\ h.op = "create" /\ h.pc = "createRule"
    /\ \E dbFails \in BOOLEAN :
        h' = IF h.dummyCollection.CreateRule # ""
             THEN LET f1 == [h EXCEPT !.built = @ \cup {"create"}, !.resolved = @ \cup {Resolved("create", NewRecordFieldResolver(TRUE))}] IN
                  IF BuildExprFails(h.dummyCollection.CreateRule)
                  THEN Return([f1 EXCEPT !.ruleFailed = @ \cup {"create"},
                                         !.createCheck = "build error"], CreateCheckError)
                  ELSE LET f2 == [f1 EXCEPT !.applied = @ \cup {"create"},
                                            !.ruleQueries = @ \cup {"create"}] IN
                       IF dbFails
                       THEN Return([f2 EXCEPT !.ruleFailed = @ \cup {"create"},
                                              !.createCheck = "query error"], CreateCheckError)
                       ELSE IF ~RuleHolds(h.dummyCollection.CreateRule, h.dummyRecord, h.requestInfo)
                       THEN Return([f2 EXCEPT !.createCheck = "false"], CreateCheckError)
                       ELSE Goto([f2 EXCEPT !.createCheck = "passed"], "manageRule")
             ELSE Goto([h EXCEPT !.createCheck = "empty"], "manageRule")
    /\ UNCHANGED <<db, others>>

recordCreate_manageRule ==
    /\ h.op = "create" /\ h.pc = "manageRule"
    /\ \E dbFails \in BOOLEAN :
        LET r == hasAuthManageAccess(Stage(h, "ManageCheck"), h.dummyCollection, h.dummyRecord, dbFails) IN
        h' = IF ~HasManageAccess(h.form)
             THEN IF r.ok
                  THEN [Goto(r.f, "submit") EXCEPT !.form = "manager"]
                  ELSE Goto(r.f, "submit")
             ELSE Goto(h, "submit")
    /\ UNCHANGED <<db, others>>

recordCreate_submit ==
    /\ h.op = "create" /\ h.pc = "submit"
    /\ \/ \E err \in ExtErrs :
            /\ h' = Return(Stage(h, "Persist"), firstApiError(err, CreateCheckError))
            /\ UNCHANGED <<db, others>>
       \/ \E id \in Ids :
            /\ db[id] = NoRecord
            /\ \A j \in Ids : db[j] = NoRecord => id <= j
            /\ db' = [db EXCEPT ![id] = [h.record EXCEPT !.id = id]]
            /\ UNCHANGED others
            /\ h' = [Goto(Stage(h, "Persist"), "respond") EXCEPT
                        !.record = [h.record EXCEPT !.id = id],
                        !.submitted = TRUE]

recordCreate_respond ==
    /\ h.op = "create" /\ h.pc = "respond"
    /\ \/ \E err \in ExtErrs :
            h' = Return(Stage(h, "Enrich"),
                        firstApiError(err, ApiError(500, "Failed to enrich record")))
       \/ \E err \in ExtErrs :
            h' = Return(Stage(Stage(h, "Enrich"), "Respond"), err)
       \/ \E fin \in {NoErr} \cup ExtErrs :
            h' = InlineFinalizer([Stage(Stage(h, "Enrich"), "Respond") EXCEPT
                                    !.written = [status |-> 200, records |-> {h.record}]], fin)
    /\ UNCHANGED <<db, others>>

recordCreate_afterHook ==
    /\ h.op = "create" /\ h.pc = "afterHook"
    /\ \E fin \in {NoErr} \cup ExtErrs : h' = OuterFinalizer(h, fin)
    /\ UNCHANGED <<db, others>>

----------------------------------------------------------------------------
(* recordUpdate *)

\* the superuser test is inverted: the rule is added for superusers only
UpdateRuleApplies_inverted(f) ==
    /\ HasSuperuserAuth(f.requestInfo)
    /\ f.collection.UpdateRule # Nil
    /\ f.collection.UpdateRule # ""

\* the condition under which recordUpdate's ruleFunc adds the update rule
UpdateRuleApplies(f) ==
    /\ ~HasSuperuserAuth(f.requestInfo)
    /\ f.collection.UpdateRule # Nil
    /\ f.collection.UpdateRule # ""

\* recordUpdate's first step without the view check of lines 766-768
recordUpdate_collection_viewAllowed ==
    /\ h.op = "update" /\ h.pc = "collection"
    /\ \E c \in Collections \cup {NoCollection} :
        h' = IF c = NoCollection
             THEN Return(Stage(h, "ResolveCollection"), ApiError(404, "Missing collection context."))
             ELSE [Goto(Stage(h, "ResolveCollection"), "rateLimit") EXCEPT !.collection = c]
    /\ UNCHANGED <<db, others>>

recordUpdate_collection ==
    /\ h.op = "update" /\ h.pc = "collection"
    /\ \E c \in Collections \cup {NoCollection} :
        h' = IF c = NoCollection
             THEN Return(Stage(h, "ResolveCollection"), ApiError(404, "Missing collection context."))
             ELSE IF IsView(c)
             THEN Return([Stage(h, "ResolveCollection") EXCEPT !.collection = c],
                         ApiError(400, "Unsupported collection type."))
             ELSE [Goto(Stage(h, "ResolveCollection"), "rateLimit") EXCEPT !.collection = c]
    /\ UNCHANGED <<db, others>>

recordUpdate_rateLimit ==
    /\ h.op = "update" /\ h.pc = "rateLimit"
    /\ \E limited \in BOOLEAN :
        h' = IF limited
             THEN Return(Stage(h, "RateLimit"), ApiError(429, "Too Many Requests."))
             ELSE Goto(Stage(h, "RateLimit"), "recordId")
    /\ UNCHANGED <<db, others>>

recordUpdate_recordId ==
    /\ h.op = "update" /\ h.pc = "recordId"
    /\ \E id \in {0} \cup Ids :
        h' = IF id = 0
             THEN Return(h, ApiError(404, ""))
             ELSE [Goto(h, "requestInfo") EXCEPT !.recordId = id]
    /\ UNCHANGED <<db, others>>

recordUpdate_requestInfo ==
    /\ h.op = "update" /\ h.pc = "requestInfo"
    /\ \/ \E err \in ExtErrs :
            h' = Return(Stage(h, "ParseBody"), firstApiError(err, ApiError(400, "")))
       \/ \E body \in Bodies :
            h' = [Goto(Stage(h, "ParseBody"), "gate") EXCEPT
                    !.requestInfo = [Auth |-> h.auth, Body |-> body, Query |-> ""]]
    /\ UNCHANGED <<db, others>>

recordUpdate_gate ==
    /\ h.op = "update" /\ h.pc = "gate"
    /\ h' = IF ~HasSuperuserAuth(h.requestInfo) /\ h.collection.UpdateRule = Nil
            THEN Return(Stage(h, "AuthorizeBaseRule"),
                        firstApiError(NoErr, ApiError(403, "Only superusers can perform this action.")))
            ELSE Goto(Stage(h, "AuthorizeBaseRule"), "eagerFetch")
    /\ UNCHANGED <<db, others>>

\* eager fetch the record so that the modifiers field values can be resolved
recordUpdate_eagerFetch ==
    /\ h.op = "update" /\ h.pc = "eagerFetch"
    /\ \E dbFails \in BOOLEAN :
        LET r == FindRecordById(h, "update", Nil, FALSE, dbFails)
        IN h' = IF r.found
                THEN Goto(r.f, "data")
                ELSE Return(r.f, firstApiError(PlainErr, ApiError(404, "")))
    /\ UNCHANGED <<db, others>>

recordUpdate_data ==
    /\ h.op = "update" /\ h.pc = "data"
    /\ \/ \E err \in ExtErrs :
            h' = Return(h, firstApiError(err, ApiError(400, "Failed to read the submitted data.")))
       \/ LET data == recordDataFromRequest(h.requestInfo, NoUpload, RecordFields, IsAuth(h.collection)).result IN
            h' = [Goto(h, "fetch") EXCEPT !.data = data, !.requestInfo.Body = data]
    /\ UNCHANGED <<db, others>>

\* refetch with access checks, then build and load the form
recordUpdate_fetch ==
    /\ h.op = "update" /\ h.pc = "fetch"
    /\ \E dbFails \in BOOLEAN :
        LET r == FindRecordById(Stage(h, "Query"), "update", h.collection.UpdateRule,
                                UpdateRuleApplies(h), dbFails)
        IN h' = IF r.found
                THEN [Goto(r.f, "trigger") EXCEPT
                        !.form = NewRecordUpsert(h.requestInfo),
                        !.record = Load(r.f.record, h.data)]
                ELSE Return(r.f, firstApiError(PlainErr, ApiError(404, "")))
    /\ UNCHANGED <<db, others>>

recordUpdate_trigger ==
    /\ h.op = "update" /\ h.pc = "trigger"
    /\ LET f == Stage(h, "Hook") IN
       \/ h' = Goto(f, "manageRule")
       \/ h' = Goto(f, "afterHook")
       \/ \E err \in ExtErrs : h' = Return(f, err)
    /\ UNCHANGED <<db, others>>

\* the grant is kept in state shared by the requests: the form of the
\* other worker's request gets manager access as well
recordUpdate_manageRule_sharedGrant ==
    /\ h.op = "update" /\ h.pc = "manageRule"
    /\ \E dbFails \in BOOLEAN :
        LET r == hasAuthManageAccess(Stage(h, "ManageCheck"), h.collection, db[h.record.id], dbFails) IN
        IF ~HasManageAccess(h.form) /\ r.ok
        THEN /\ h' = [Goto(r.f, "submit") EXCEPT !.form = "manager"]
             /\ w' = IF w.form = "default" THEN [w EXCEPT !.form = "manager"] ELSE w
        ELSE /\ h' = IF ~HasManageAccess(h.form) THEN Goto(r.f, "submit") ELSE Goto(h, "submit")
             /\ w' = w
    /\ UNCHANGED <<db, rest>>

recordUpdate_manageRule ==
    /\ h.op = "update" /\ h.pc = "manageRule"
    /\ \E dbFails \in BOOLEAN :
        LET r == hasAuthManageAccess(Stage(h, "ManageCheck"), h.collection, db[h.record.id], dbFails) IN
        h' = IF ~HasManageAccess(h.form)
             THEN IF r.ok
                  THEN [Goto(r.f, "submit") EXCEPT !.form = "manager"]
                  ELSE Goto(r.f, "submit")
             ELSE Goto(h, "submit")
    /\ UNCHANGED <<db, others>>

\* recordUpdate's Submit with the finalizer run on the error path too: the
\* handler goes on to the outer finalizer call although Trigger returned
\* the Submit error
recordUpdate_submit_finalizerOnError ==
    /\ h.op = "update" /\ h.pc = "submit"
    /\ \/ \E err \in ExtErrs :
            /\ h' = LET f == Stage(h, "Persist") IN
                    Return(IF f.optFinalizer # "nil"
                           THEN [Stage(f, "Finalizer") EXCEPT !.finalizerCalls = @ + 1]
                           ELSE f,
                           firstApiError(err, ApiError(400, "Failed to update record.")))
            /\ UNCHANGED <<db, others>>
       \/ /\ db' = [db EXCEPT ![h.record.id] = h.record]
          /\ UNCHANGED others
          /\ h' = [Goto(Stage(h, "Persist"), "respond") EXCEPT !.submitted = TRUE]

recordUpdate_submit ==
    /\ h.op = "update" /\ h.pc = "submit"
    /\ \/ \E err \in ExtErrs :
            /\ h' = Return(Stage(h, "Persist"),
                           firstApiError(err, ApiError(400, "Failed to update record.")))
            /\ UNCHANGED <<db, others>>
       \/ /\ db' = [db EXCEPT ![h.record.id] = h.record]
          /\ UNCHANGED others
          /\ h' = [Goto(Stage(h, "Persist"), "respond") EXCEPT !.submitted = TRUE]

recordUpdate_respond ==
    /\ h.op = "update" /\ h.pc = "respond"
    /\ \/ \E err \in ExtErrs :
            h' = Return(Stage(h, "Enrich"),
                        firstApiError(err, ApiError(500, "Failed to enrich record")))
       \/ \E err \in ExtErrs :
            h' = Return(Stage(Stage(h, "Enrich"), "Respond"), err)
       \/ \E fin \in {NoErr} \cup ExtErrs :
            h' = InlineFinalizer([Stage(Stage(h, "Enrich"), "Respond") EXCEPT
                                    !.written = [status |-> 200, records |-> {h.record}]], fin)
    /\ UNCHANGED <<db, others>>

recordUpdate_afterHook ==
    /\ h.op = "update" /\ h.pc = "afterHook"
    /\ \E fin \in {NoErr} \cup ExtErrs : h' = OuterFinalizer(h, fin)
    /\ UNCHANGED <<db, others>>

----------------------------------------------------------------------------

Next ==
    \/ Request
    \/ Finish
    \/ recordsList_collection
    \/ recordsList_rateLimit
    \/ recordsList_requestInfo
    \/ recordsList_gate
    \/ recordsList_superuserOnly
    \/ recordsList_rule
    \/ recordsList_exec
    \/ recordsList_trigger
    \/ recordsList_final
    \/ recordsList_sleep
    \/ recordView_collection
    \/ recordView_rateLimit
    \/ recordView_recordId
    \/ recordView_requestInfo
    \/ recordView_gate
    \/ recordView_fetch
    \/ recordView_trigger
    \/ recordView_final
    \/ recordDelete_collection
    \/ recordDelete_rateLimit
    \/ recordDelete_recordId
    \/ recordDelete_requestInfo
    \/ recordDelete_gate
    \/ recordDelete_fetch
    \/ recordDelete_trigger
    \/ recordDelete_final
    \/ recordDelete_afterHook
    \/ recordCreate_collection
    \/ recordCreate_rateLimit
    \/ recordCreate_requestInfo
    \/ recordCreate_gate
    \/ recordCreate_data
    \/ recordCreate_trigger
    \/ recordCreate_dummy
    \/ recordCreate_createRule
    \/ recordCreate_manageRule
    \/ recordCreate_submit
    \/ recordCreate_respond
    \/ recordCreate_afterHook
    \/ recordUpdate_collection
    \/ recordUpdate_rateLimit
    \/ recordUpdate_recordId
    \/ recordUpdate_requestInfo
    \/ recordUpdate_gate
    \/ recordUpdate_eagerFetch
    \/ recordUpdate_data
    \/ recordUpdate_fetch
    \/ recordUpdate_trigger
    \/ recordUpdate_manageRule
    \/ recordUpdate_submit
    \/ recordUpdate_respond
    \/ recordUpdate_afterHook

Spec == Init /\ [][Next]_vars

----------------------------------------------------------------------------
(* Two workers *)

\* the requests served concurrently: list and update requests without a
\* finalizer, of a guest or of user u1, for one auth collection whose list
\* rule is "verified = true", whose update rule is empty and whose manage
\* rule is the owner rule; an update submits one body; of the timeouts of
\* the throttle the two ends
ConcCollections == {Collection("auth", 3, 3)}

ConcOps == {"list", "update"}

ConcBodies == {[owner |-> "u2", verified |-> TRUE]}

InScope(f) ==
    /\ f.collection \in ConcCollections \cup {NoCollection}
    /\ f.op \in ConcOps \cup {"none"}
    /\ f.optFinalizer = "nil"
    /\ f.auth \in {"", "u1"}
    /\ f.throttle \in {-1, 0, 150}
    /\ f.requestInfo.Body \in ConcBodies \cup {NoBody}

\* the other worker's goroutine runs next: each request is served by its own
\* goroutine, with its own locals, and the two share only the table
Switch ==
    /\ h' = w
    /\ w' = h
    /\ UNCHANGED <<db, rest>>

NextConc ==
    \/ Switch
    \/ Request /\ InScope(h')
    \/ Finish /\ InScope(h')
    \/ recordsList_collection /\ InScope(h')
    \/ recordsList_rateLimit /\ InScope(h')
    \/ recordsList_requestInfo /\ InScope(h')
    \/ recordsList_gate /\ InScope(h')
    \/ recordsList_superuserOnly /\ InScope(h')
    \/ recordsList_rule /\ InScope(h')
    \/ recordsList_exec /\ InScope(h')
    \/ recordsList_trigger /\ InScope(h')
    \/ recordsList_final /\ InScope(h')
    \/ recordsList_sleep /\ InScope(h')
    \/ recordUpdate_collection /\ InScope(h')
    \/ recordUpdate_rateLimit /\ InScope(h')
    \/ recordUpdate_recordId /\ InScope(h')
    \/ recordUpdate_requestInfo /\ InScope(h')
    \/ recordUpdate_gate /\ InScope(h')
    \/ recordUpdate_eagerFetch /\ InScope(h')
    \/ recordUpdate_data /\ InScope(h')
    \/ recordUpdate_fetch /\ InScope(h')
    \/ recordUpdate_trigger /\ InScope(h')
    \/ recordUpdate_manageRule /\ InScope(h')
    \/ recordUpdate_submit /\ InScope(h')
    \/ recordUpdate_respond /\ InScope(h')
    \/ recordUpdate_afterHook /\ InScope(h')

SpecConc == Init /\ [][NextConc]_vars

----------------------------------------------------------------------------
(* List requests with the timing buckets of their collections followed *)

\* the collections whose list requests are followed: one collection for
\* each value of ListRule
BucketCollections == {Collection("base", i, 3) : i \in 0..4}

InitBucket ==
    /\ db = [i \in Ids |-> IF i = 1 THEN [id |-> 1, owner |-> "u1", verified |-> FALSE] ELSE NoRecord]
    /\ h = IdleFrame
    /\ w = IdleFrame
    /\ call = NoCall
    /\ app = IdleApp
    /\ ui = IdleUi
    /\ timing = [k \in {TimingKey(c) : c \in BucketCollections} |-> MaxRequests]

InBucketScope(f) ==
    /\ f.collection \in BucketCollections \cup {NoCollection}
    /\ f.op \in {"list", "none"}

\* the window of a bucket (listTimingRateLimitRule.Duration) has passed
WindowExpires ==
    /\ \E k \in DOMAIN timing :
          /\ timing[k] < MaxRequests
          /\ timing' = [timing EXCEPT ![k] = MaxRequests]
    /\ UNCHANGED <<db, h, w, apart>>

NextBucket ==
    \/ WindowExpires
    \/ Request /\ InBucketScope(h')
    \/ Finish
    \/ recordsList_collection /\ InBucketScope(h')
    \/ recordsList_rateLimit
    \/ recordsList_requestInfo
    \/ recordsList_gate
    \/ recordsList_superuserOnly
    \/ recordsList_rule
    \/ recordsList_exec
    \/ recordsList_trigger
    \/ recordsList_final
    \/ recordsList_sleep

SpecBucket == InitBucket /\ [][NextBucket]_vars

----------------------------------------------------------------------------
(* HanzoBase.Execute (src/hanzobase.go): the main flow, the signal          *)
(* goroutine and the command goroutine                                     *)

\* hb.skipBootstrap()
skipBootstrap(a) ==
    IF a.bootstrapped THEN TRUE
    ELSE IF FindFails(a.args) THEN TRUE
    ELSE \E i \in 1..Len(a.args) :
            /\ a.args[i] \in {"-h", "--help", "-v", "--version"}
            /\ \/ a.args[i] \in {"--help", "--version"} /\ TrimLeft(a.args[i]) \notin a.flags
               \/ a.args[i] \in {"-h", "-v"} /\ TrimLeft(a.args[i]) \notin a.shorthands

\* Execute is called: the command line, the flags the command defines and
\* whether Bootstrap was called before are fixed
Launch ==
    /\ app.pc = "idle"
    /\ \E args \in CommandLines, flags \in SUBSET {"help", "version"},
          shorthands \in SUBSET {"h", "v"}, booted \in BOOLEAN :
          app' = [IdleApp EXCEPT !.pc = "bootstrap", !.args = args, !.flags = flags,
                                 !.shorthands = shorthands,
                                 !.bootstrapped = booted, !.wasBootstrapped = booted]
    /\ UNCHANGED <<db, h, w, call, timing, ui>>

\* the error of Bootstrap is dropped and Execute goes on
Execute_bootstrap_errorDropped ==
    /\ app.pc = "bootstrap"
    /\ IF skipBootstrap(app)
       THEN app' = [app EXCEPT !.pc = "spawn"]
       ELSE \E err \in {NoErr, ErrBootstrap} :
               app' = [app EXCEPT !.bootstrapCalls = @ + 1, !.bootErr = err,
                                  !.bootstrapped = (err = NoErr),
                                  !.pc = "spawn"]
    /\ UNCHANGED <<db, h, w, call, timing, ui>>

\* lines 179-183
Execute_bootstrap ==
    /\ app.pc = "bootstrap"
    /\ IF skipBootstrap(app)
       THEN app' = [app EXCEPT !.pc = "spawn"]
       ELSE \E err \in {NoErr, ErrBootstrap} :
               app' = IF err # NoErr
                      THEN [app EXCEPT !.bootstrapCalls = @ + 1, !.bootErr = err,
                                       !.pc = "returned", !.ret = err]
                      ELSE [app EXCEPT !.bootstrapCalls = @ + 1, !.bootstrapped = TRUE,
                                       !.pc = "spawn"]
    /\ UNCHANGED <<db, h, w, call, timing, ui>>

\* lines 185-202: the channel is made and the two goroutines are started
Execute_spawn ==
    /\ app.pc = "spawn"
    /\ app' = [app EXCEPT !.pc = "recv", !.done = 0, !.sig = "spawned", !.cmd = "spawned"]
    /\ UNCHANGED <<db, h, w, call, timing, ui>>

\* signal.Notify(sigch, os.Interrupt, syscall.SIGTERM); the goroutine waits on sigch
SigListen ==
    /\ app.sig = "spawned"
    /\ app' = [app EXCEPT !.sig = "waiting"]
    /\ UNCHANGED <<db, h, w, call, timing, ui>>

\* an interrupt or SIGTERM arrives: <-sigch returns
Signal ==
    /\ app.sig = "waiting"
    /\ app' = [app EXCEPT !.sig = "sending"]
    /\ UNCHANGED <<db, h, w, call, timing, ui>>

\* done <- true of the signal goroutine; the channel holds one value, so
\* the send waits while the buffer is full
SigSend ==
    /\ app.sig = "sending"
    /\ IF app.done < 1
       THEN app' = [app EXCEPT !.done = @ + 1, !.sig = "exited", !.blocked = @ \ {"sig"}]
       ELSE app.blocked # app.blocked \cup {"sig"} /\ app' = [app EXCEPT !.blocked = @ \cup {"sig"}]
    /\ UNCHANGED <<db, h, w, call, timing, ui>>

\* the command goroutine calls hb.RootCmd.Execute()
CmdRun ==
    /\ app.cmd = "spawned"
    /\ app' = [app EXCEPT !.cmd = "running", !.rootExecuted = TRUE]
    /\ UNCHANGED <<db, h, w, call, timing, ui>>

\* hb.RootCmd.Execute() returns
CmdFinish ==
    /\ app.cmd = "running"
    /\ app' = [app EXCEPT !.cmd = "sending"]
    /\ UNCHANGED <<db, h, w, call, timing, ui>>

\* done <- true of the command goroutine
CmdSend ==
    /\ app.cmd = "sending"
    /\ IF app.done < 1
       THEN app' = [app EXCEPT !.done = @ + 1, !.cmd = "exited", !.blocked = @ \ {"cmd"}]
       ELSE app.blocked # app.blocked \cup {"cmd"} /\ app' = [app EXCEPT !.blocked = @ \cup {"cmd"}]
    /\ UNCHANGED <<db, h, w, call, timing, ui>>

\* the value is read and left in the buffer of the channel
Execute_recv_peek ==
    /\ app.pc = "recv"
    /\ app.done > 0
    /\ app' = [app EXCEPT !.received = @ + 1, !.pc = "terminate"]
    /\ UNCHANGED <<db, h, w, call, timing, ui>>

\* <-done
Execute_recv ==
    /\ app.pc = "recv"
    /\ app.done > 0
    /\ app' = [app EXCEPT !.done = @ - 1, !.received = @ + 1, !.pc = "terminate"]
    /\ UNCHANGED <<db, h, w, call, timing, ui>>

\* the terminate hook is triggered before a value was received from done
Execute_terminate_early ==
    /\ app.pc \in {"recv", "terminate"}
    /\ app' = [app EXCEPT !.terminateCalls = @ + 1, !.resetCalls = @ + 1,
                          !.bootstrapped = FALSE, !.pc = "returned"]
    /\ UNCHANGED <<db, h, w, call, timing, ui>>

\* lines 207-211: hb.OnTerminate().Trigger(event, final handler); the bound
\* handlers all call Next and the final handler runs
\* e.App.ResetBootstrapState(), or one of them stops the chain, or returns
\* an error
Execute_terminate ==
    /\ app.pc = "terminate"
    /\ \/ \E err \in {NoErr, ErrReset} :
            app' = [app EXCEPT !.terminateCalls = @ + 1, !.resetCalls = @ + 1,
                               !.bootstrapped = FALSE, !.pc = "returned", !.ret = err]
       \/ app' = [app EXCEPT !.terminateCalls = @ + 1, !.pc = "returned"]
       \/ app' = [app EXCEPT !.terminateCalls = @ + 1, !.pc = "returned", !.ret = ErrTerminateHook]
    /\ UNCHANGED <<db, h, w, call, timing, ui>>

NextApp ==
    \/ Launch
    \/ Execute_bootstrap
    \/ Execute_spawn
    \/ SigListen
    \/ Signal
    \/ SigSend
    \/ CmdRun
    \/ CmdFinish
    \/ CmdSend
    \/ Execute_recv
    \/ Execute_terminate

SpecApp == Init /\ [][NextApp]_vars

\* the scheduler runs every goroutine that can take a step; when a signal
\* arrives and when the command returns is left open
SpecAppLive ==
    /\ Init /\ [][NextApp]_vars
    /\ WF_vars(Execute_bootstrap) /\ WF_vars(Execute_spawn)
    /\ WF_vars(Execute_recv) /\ WF_vars(Execute_terminate)
    /\ WF_vars(SigListen) /\ WF_vars(SigSend)
    /\ WF_vars(CmdRun) /\ WF_vars(CmdSend)

----------------------------------------------------------------------------
(* NewWithConfig (src/hanzobase.go): the query timeout; a time.Duration is *)
(* counted in milliseconds                                                 *)

\* time.Second
Second == 1000

\* core.DefaultQueryTimeout
DefaultQueryTimeout == 30 * Second

\* the values of Config.DefaultQueryTimeout
ConfigDurations == {0, 1, 500, 999, 1000, 1500, 2000, 30000, 45000, 90500, -1000, -1500}

\* the --queryTimeout flag on the command line: whether it is passed, and
\* its value in seconds
NoFlag == [set |-> FALSE, value |-> 0]

QueryTimeoutFlags == {NoFlag} \cup {[set |-> TRUE, value |-> v] : v \in {0, 5, 60}}

\* int(d.Seconds()): the float is cut towards zero
IntSeconds(d) == IF d >= 0 THEN d \div Second ELSE -((-d) \div Second)

\* hb.queryTimeout after eagerParseFlags: the flag's value, or the default
\* the flag was registered with
eagerParseFlags(config, flag) ==
    IF flag.set THEN flag.value ELSE IntSeconds(config.DefaultQueryTimeout)

\* NewWithConfig(config): the QueryTimeout of the core.BaseAppConfig
NewWithConfig(config, flag) ==
    LET withDefault == IF config.DefaultQueryTimeout = 0
                       THEN [config EXCEPT !.DefaultQueryTimeout = DefaultQueryTimeout]
                       ELSE config
        queryTimeout == eagerParseFlags(withDefault, flag) IN
    [QueryTimeout |-> queryTimeout * Second]

----------------------------------------------------------------------------
(* apis.Static(fsys, indexFallback) on the directory tree of TestStatic; a *)
(* path is the sequence of its segments between slashes, so that a path    *)
(* ending in a slash ends with the empty segment                           *)

\* number of segments of a request path
MaxSegs == 3

\* createTestDir: the files of the temporary directory, by their path from
\* it, with their content; fsys is its directory "sub"
Files ==
    [p \in {<<"index.html">>, <<"testroot">>, <<"sub", "index.html">>, <<"sub", "test">>,
            <<"sub", "sub2", "index.html">>, <<"sub", "sub2", "test">>} |->
        CASE p = <<"index.html">> -> "root index.html"
          [] p = <<"testroot">> -> "root test"
          [] p = <<"sub", "index.html">> -> "sub index.html"
          [] p = <<"sub", "test">> -> "sub test"
          [] p = <<"sub", "sub2", "index.html">> -> "sub2 index.html"
          [] OTHER -> "sub2 test"]

Dirs == {<<>>, <<"sub">>, <<"sub", "sub2">>}

\* os.DirFS(filepath.Join(dir, "sub"))
FsRoot == <<"sub">>

\* router.IndexPage
IndexPage == "index.html"

\* segments that are one name to the file system although they spell a
\* traversal with backslashes or percent-encoding
BackslashDots == {"..\\testroot", "..\\.."}

OddNames == BackslashDots \cup {"\\..", "%2e%2e", "%2e%2e%2ftestroot", "%252e%252e%255ctestroot"}

SegNames == {"", "..", "test", "testroot", "sub2", IndexPage, "missing"} \cup OddNames

StaticPaths == UNION {[1..n -> SegNames] : n \in 0..MaxSegs}

\* filepath.Clean of a relative path: empty and "." segments are dropped,
\* "name/.." is dropped, leading ".." segments are kept; acc is the cleaned
\* part so far
RECURSIVE Clean(_, _)
Clean(segs, acc) ==
    IF segs = <<>> THEN acc
    ELSE LET s == Head(segs) IN
         IF s \in {"", "."} THEN Clean(Tail(segs), acc)
         ELSE IF s = ".." /\ acc # <<>> /\ acc[Len(acc)] # ".."
         THEN Clean(Tail(segs), SubSeq(acc, 1, Len(acc) - 1))
         ELSE Clean(Tail(segs), Append(acc, s))

\* the URL path "/"+path ends with a slash
TrailingSlash(path) == path = <<>> \/ path[Len(path)] = ""

\* the eager directory traversal check: filename starts with ".." followed by
\* a slash or a backslash
TraversalPrefix(filename) ==
    \/ Len(filename) >= 2 /\ filename[1] = ".."
    \/ Len(filename) >= 1 /\ filename[1] \in BackslashDots

\* fs.ValidPath(name): no empty, "." or ".." element
ValidPath(filename) == \A i \in 1..Len(filename) : filename[i] \notin {"", ".", ".."}

\* the operating system's resolution of the segments below directory at:
\* ".." goes to the parent directory
RECURSIVE OsResolve(_, _)
OsResolve(at, segs) ==
    IF segs = <<>> THEN at
    ELSE IF Head(segs) = ".."
    THEN OsResolve(IF at = <<>> THEN at ELSE SubSeq(at, 1, Len(at) - 1), Tail(segs))
    ELSE OsResolve(Append(at, Head(segs)), Tail(segs))

NotFound == [status |-> 404, body |-> "", err |-> TRUE]

Redirect == [status |-> 301, body |-> "", err |-> FALSE]

Served(content) == [status |-> 200, body |-> content, err |-> FALSE]

\* the node a name opens: the file system joins the name to its root without
\* looking at it
Open_unchecked(filename) == OsResolve(FsRoot, filename)

\* fsys.Open(name) of os.DirFS: the node of the tree, or <<"?">> for an error
Open(filename) ==
    IF ValidPath(filename) THEN OsResolve(FsRoot, filename) ELSE <<"?">>

\* e.FileFS(fsys, filename): the file, or the index page of a directory
FileFS(filename) ==
    LET node == Open(filename) IN
    IF node \in DOMAIN Files THEN Served(Files[node])
    ELSE IF node \in Dirs /\ Append(node, IndexPage) \in DOMAIN Files
    THEN Served(Files[Append(node, IndexPage)])
    ELSE NotFound

\* the handler without its eager traversal check
Static_noTraversalCheck(indexFallback, path) ==
    LET filename == Clean(path, <<>>)
        fallback == IF indexFallback /\ filename # <<IndexPage>>
                    THEN FileFS(<<IndexPage>>) ELSE NotFound
        node == Open_unchecked(filename) IN
    IF node \notin DOMAIN Files \cup Dirs THEN fallback
    ELSE IF node \in Dirs
         THEN IF ~TrailingSlash(path) THEN Redirect
              ELSE IF Append(node, IndexPage) \in DOMAIN Files
                   THEN Served(Files[Append(node, IndexPage)]) ELSE fallback
         ELSE IF TrailingSlash(path) THEN Redirect ELSE Served(Files[node])

\* Static(fsys, indexFallback)(e) for the request path
Static(indexFallback, path) ==
    LET filename == Clean(path, <<>>)
        fallback == IF indexFallback /\ filename # <<IndexPage>>
                    THEN FileFS(<<IndexPage>>) ELSE NotFound
        node == Open(filename) IN
    IF TraversalPrefix(filename) THEN fallback
    ELSE IF node \notin DOMAIN Files \cup Dirs THEN fallback
    ELSE IF node \in Dirs /\ ~TrailingSlash(path) THEN Redirect
    ELSE IF node \in DOMAIN Files /\ TrailingSlash(path) THEN Redirect
    ELSE LET fileErr == FileFS(filename) IN
         IF fileErr.err THEN fallback ELSE fileErr

----------------------------------------------------------------------------
(* The helper functions called on their own *)

\* the prefixes extractUploadedFiles is called with
Prefixes == {"", "sub"}

\* the keys extractUploadedFiles looks up for the fields under a prefix
LookupKeys(fields, prefix) ==
    {IF prefix # "" THEN prefix \o "." \o UploadKeys(n)[i] ELSE UploadKeys(n)[i] :
        n \in FileFieldNames(fields), i \in 1..3}

\* the keys a request body is drawn from, and the value it holds for a key
DataBodyKeys == {"title", "secret", FieldNamePassword, "doc", "doc-", "avatar"}

BodyValue(k) ==
    CASE k = "doc" -> <<"old_doc", "kept_doc">>
      [] k = "doc-" -> <<"old_doc">>
      [] k = "avatar" -> <<"old_avatar">>
      [] OTHER -> "text"

DataBodies == {[k \in ks |-> BodyValue(k)] : ks \in SUBSET DataBodyKeys}

\* the keys whose lookup varies in the calls of recordDataFromRequest
DataLookupKeys == {"doc", "doc+", "avatar"}

Call_extractUploadedFiles ==
    /\ call = NoCall
    /\ \E multipart \in BOOLEAN, prefix \in Prefixes :
       \E lookups \in [LookupKeys(UploadFields, prefix) -> Outcomes] :
          call' = [fn |-> "extractUploadedFiles",
                   re |-> Upload(multipart, lookups),
                   fields |-> UploadFields,
                   prefix |-> prefix,
                   out |-> extractUploadedFiles(Upload(multipart, lookups), UploadFields, prefix)]
    /\ UNCHANGED <<db, h, w, timing, app, ui>>

Call_recordDataFromRequest ==
    /\ call = NoCall
    /\ \E auth \in Auths, isAuth \in BOOLEAN, body \in DataBodies, multipart \in BOOLEAN :
       \E lookups \in [DataLookupKeys -> Outcomes] :
          LET info == [Auth |-> auth, Body |-> body, Query |-> ""] IN
          call' = [fn |-> "recordDataFromRequest",
                   info |-> info,
                   re |-> Upload(multipart, lookups),
                   fields |-> UploadFields,
                   isAuth |-> isAuth,
                   out |-> recordDataFromRequest(info, Upload(multipart, lookups), UploadFields, isAuth)]
    /\ UNCHANGED <<db, h, w, timing, app, ui>>

Call_NewWithConfig ==
    /\ call = NoCall
    /\ \E d \in ConfigDurations, flag \in QueryTimeoutFlags :
          LET config == [DefaultQueryTimeout |-> d] IN
          call' = [fn |-> "NewWithConfig",
                   config |-> config,
                   flag |-> flag,
                   out |-> NewWithConfig(config, flag)]
    /\ UNCHANGED <<db, h, w, timing, app, ui>>

Call_Static ==
    /\ call = NoCall
    /\ \E indexFallback \in BOOLEAN, path \in StaticPaths :
          call' = [fn |-> "Static",
                   indexFallback |-> indexFallback,
                   path |-> path,
                   out |-> Static(indexFallback, path)]
    /\ UNCHANGED <<db, h, w, timing, app, ui>>

Call_return ==
    /\ call # NoCall
    /\ call' = NoCall
    /\ UNCHANGED <<db, h, w, timing, app, ui>>

NextData ==
    \/ Call_extractUploadedFiles
    \/ Call_recordDataFromRequest
    \/ Call_NewWithConfig
    \/ Call_Static
    \/ Call_return

SpecData == Init /\ [][NextData]_vars

----------------------------------------------------------------------------
(* The collections store of the dashboard (src/ui/src/stores/collections.js) *)
(* in every open tab, the server the tabs load from and the BroadcastChannel *)
(* between the tabs                                                          *)

IdsOf(list) == {list[i].id : i \in DOMAIN list}

Elems(list) == {list[i] : i \in DOMAIN list}

\* CommonHelper.sortCollections: the collections in the order of the server
\* list ("sort": "+name"), which is the order of the ids here
sortCollections(S) ==
    CHOOSE s \in [1..Cardinality(S) -> S] :
        \A i, j \in 1..Cardinality(S) : i < j => s[i].id < s[j].id

\* CommonHelper.findByKey(list, "id", id): the item, or undefined
findByKey(list, id) ==
    IF id \in IdsOf(list)
    THEN list[CHOOSE i \in DOMAIN list : list[i].id = id]
    ELSE Undefined

\* CommonHelper.pushOrReplaceByKey(list, collection, "id")
pushOrReplaceByKey(list, collection) ==
    IF collection.id \in IdsOf(list)
    THEN [i \in DOMAIN list |-> IF list[i].id = collection.id THEN collection ELSE list[i]]
    ELSE Append(list, collection)

\* CommonHelper.removeByKey(list, "id", id)
removeByKey(list, id) ==
    LET keep(c) == c.id # id IN SelectSeq(list, keep)

\* list[0]
First(list) == IF list = <<>> THEN Undefined ELSE list[1]

\* items.find((f) => !f.system) || items[0]
FirstRegular(items) ==
    IF \E i \in DOMAIN items : ~items[i].system
    THEN items[CHOOSE i \in DOMAIN items :
                  /\ ~items[i].system
                  /\ \A j \in DOMAIN items : ~items[j].system => i <= j]
    ELSE First(items)

\* CommonHelper.isEmpty(current?.id)
isEmpty(current) == current.id = 0

\* notifyOtherTabs of tab t: postMessage queues one message event at the
\* channel object of every other tab, none at the own one
notifyOtherTabs(tabs, t) ==
    [u \in Tabs |-> IF u = t
                    THEN [tabs[u] EXCEPT !.posted = @ + 1]
                    ELSE [tabs[u] EXCEPT !.inbox = @ + 1]]

\* a slot for one more call of loadCollections
FreeSlot(tab) == CHOOSE k \in 1..MaxLoads : tab.loads[k] = NoLoad

\* lines 76-82: isCollectionsLoading is set and the list is requested
StartLoad(tab, activeId, fromMessage) ==
    [tab EXCEPT !.isCollectionsLoading = TRUE,
                !.loads[FreeSlot(tab)] =
                    [pc |-> "list", activeId |-> activeId, answer |-> "pending",
                     items |-> <<>>, added |-> {}, fromMessage |-> fromMessage]]

\* lines 25-37
changeActiveCollectionById(t, collectionId) ==
    /\ ui.ops < MaxOps
    /\ LET tab   == ui.tab[t]
           found == findByKey(tab.collections, collectionId) IN
       ui' = [ui EXCEPT !.ops = @ + 1,
                        !.tab[t].activeCollection =
                            IF found # Undefined THEN found
                            ELSE IF tab.collections # <<>> THEN tab.collections[1]
                            ELSE @]
    /\ UNCHANGED <<db, h, w, call, timing, app>>

\* lines 40-54; the loads that wait for their list take note of the id
addCollection(t, collection) ==
    /\ ui.ops < MaxOps
    /\ LET tab == ui.tab[t]
           new == [tab EXCEPT
                     !.activeCollection =
                         IF isEmpty(@) \/ @.id = collection.id THEN collection ELSE @,
                     !.collections =
                         sortCollections(Elems(pushOrReplaceByKey(tab.collections, collection))),
                     !.loads = [k \in 1..MaxLoads |->
                                  IF @[k].pc = "list"
                                  THEN [@[k] EXCEPT !.added = @ \cup {collection.id}]
                                  ELSE @[k]]] IN
       ui' = [ui EXCEPT !.ops = @ + 1,
                        !.tab = notifyOtherTabs([ui.tab EXCEPT ![t] = new], t)]
    /\ UNCHANGED <<db, h, w, call, timing, app>>

\* lines 56-73; current.id of an undefined activeCollection throws inside
\* the two update callbacks, after removeByKey has changed the array of the
\* store
removeCollection(t, collection) ==
    /\ ui.ops < MaxOps
    /\ LET tab  == ui.tab[t]
           list == removeByKey(tab.collections, collection.id)
           gone == [tab EXCEPT
                      !.collections = list,
                      !.loads = [k \in 1..MaxLoads |->
                                   [@[k] EXCEPT !.added = @ \ {collection.id}]]] IN
       IF tab.activeCollection = Undefined
       THEN ui' = [ui EXCEPT !.ops = @ + 1, !.tab[t] = [gone EXCEPT !.threw = TRUE]]
       ELSE ui' = [ui EXCEPT
                     !.ops = @ + 1,
                     !.tab = notifyOtherTabs(
                                [ui.tab EXCEPT ![t] =
                                    [gone EXCEPT !.activeCollection =
                                        IF @.id = collection.id THEN First(list) ELSE @]], t)]
    /\ UNCHANGED <<db, h, w, call, timing, app>>

\* loadCollections(activeId) is called by the dashboard: lines 76-82
loadCollections(t, activeId) ==
    /\ ui.ops < MaxOps
    /\ \E k \in 1..MaxLoads : ui.tab[t].loads[k] = NoLoad
    /\ ui' = [ui EXCEPT !.ops = @ + 1, !.tab[t] = StartLoad(@, activeId, FALSE)]
    /\ UNCHANGED <<db, h, w, call, timing, app>>

\* lines 16-18: the message event of the channel calls
\* loadCollections(get(activeCollection)?.id)
onmessage(t) ==
    /\ ui.tab[t].inbox > 0
    /\ \E k \in 1..MaxLoads : ui.tab[t].loads[k] = NoLoad
    /\ ui' = [ui EXCEPT !.tab[t] =
                [StartLoad(@, @.activeCollection.id, TRUE) EXCEPT
                    !.inbox = @ - 1, !.reloads = @ + 1]]
    /\ UNCHANGED <<db, h, w, call, timing, app>>

\* the list of the server, "sort": "+name"
ServerList == sortCollections({Coll(i) : i \in ui.server})

\* the server answers ApiClient.collections.getFullList with its list, or
\* the request fails
getFullList(t, k) ==
    /\ ui.tab[t].loads[k].pc = "list"
    /\ ui.tab[t].loads[k].answer = "pending"
    /\ \/ ui' = [ui EXCEPT !.tab[t].loads[k].answer = "items",
                           !.tab[t].loads[k].items = ServerList]
       \/ ui' = [ui EXCEPT !.tab[t].loads[k].answer = "error"]
    /\ UNCHANGED <<db, h, w, call, timing, app>>

\* the event handler of loadCollections posts to the channel as well
loadCollections_items_notifies(t, k) ==
    /\ ui.tab[t].loads[k].pc = "list"
    /\ ui.tab[t].loads[k].answer # "pending"
    /\ LET tab  == ui.tab[t]
           load == tab.loads[k] IN
       IF load.answer = "error"
       THEN ui' = [ui EXCEPT !.tab[t] =
                      [tab EXCEPT !.isCollectionsLoading = FALSE, !.loads[k] = NoLoad]]
       ELSE LET item == IF load.activeId # 0
                        THEN findByKey(load.items, load.activeId)
                        ELSE Undefined IN
            ui' = [ui EXCEPT !.tab = notifyOtherTabs([ui.tab EXCEPT ![t] =
                      [tab EXCEPT
                         !.collections = sortCollections(Elems(load.items)),
                         !.activeCollection =
                             IF item # Undefined THEN item
                             ELSE IF load.items # <<>> THEN FirstRegular(load.items)
                             ELSE @,
                         !.loads[k].pc = "scaffolds"]], t)]
    /\ UNCHANGED <<db, h, w, call, timing, app>>

\* loadCollections goes on after await getFullList: lines 84-95, or the
\* catch of line 98 and line 102 when the request failed
loadCollections_items(t, k) ==
    /\ ui.tab[t].loads[k].pc = "list"
    /\ ui.tab[t].loads[k].answer # "pending"
    /\ LET tab  == ui.tab[t]
           load == tab.loads[k] IN
       IF load.answer = "error"
       THEN ui' = [ui EXCEPT !.tab[t] =
                      [tab EXCEPT !.isCollectionsLoading = FALSE, !.loads[k] = NoLoad]]
       ELSE LET item == IF load.activeId # 0
                        THEN findByKey(load.items, load.activeId)
                        ELSE Undefined IN
            ui' = [ui EXCEPT !.tab[t] =
                      [tab EXCEPT
                         !.collections = sortCollections(Elems(load.items)),
                         !.activeCollection =
                             IF item # Undefined THEN item
                             ELSE IF load.items # <<>> THEN FirstRegular(load.items)
                             ELSE @,
                         !.loads[k].pc = "scaffolds"]]
    /\ UNCHANGED <<db, h, w, call, timing, app>>

\* loadCollections goes on after await getScaffolds, resolved or rejected:
\* lines 97-102
loadCollections_scaffolds(t, k) ==
    /\ ui.tab[t].loads[k].pc = "scaffolds"
    /\ ui' = [ui EXCEPT !.tab[t].isCollectionsLoading = FALSE,
                        !.tab[t].loads[k] = NoLoad]
    /\ UNCHANGED <<db, h, w, call, timing, app>>

\* a collection is saved on the server, by one of the tabs or by another client
Server_save(i) ==
    /\ i \notin ui.server
    /\ ui' = [ui EXCEPT !.server = @ \cup {i}]
    /\ UNCHANGED <<db, h, w, call, timing, app>>

\* a collection that is not a system collection is deleted on the server
Server_delete(i) ==
    /\ i \in ui.server /\ ~Coll(i).system
    /\ ui' = [ui EXCEPT !.server = @ \ {i}]
    /\ UNCHANGED <<db, h, w, call, timing, app>>

NextStore ==
    \/ \E t \in Tabs, i \in {0} \cup CollectionIds : changeActiveCollectionById(t, i)
    \/ \E t \in Tabs, i \in CollectionIds : addCollection(t, Coll(i))
    \/ \E t \in Tabs, i \in CollectionIds : removeCollection(t, Coll(i))
    \/ \E t \in Tabs, i \in {0} \cup CollectionIds : loadCollections(t, i)
    \/ \E t \in Tabs : onmessage(t)
    \/ \E t \in Tabs, k \in 1..MaxLoads : getFullList(t, k)
    \/ \E t \in Tabs, k \in 1..MaxLoads : loadCollections_items(t, k)
    \/ \E t \in Tabs, k \in 1..MaxLoads : loadCollections_scaffolds(t, k)
    \/ \E i \in CollectionIds : Server_save(i)
    \/ \E i \in CollectionIds : Server_delete(i)

SpecStore == Init /\ [][NextStore]_vars

\* the event loop of every tab runs the message events and the
\* continuations that are ready, and the server answers every request; what
\* the dashboard calls and what is saved on the server is left open
SpecStoreLive ==
    /\ Init /\ [][NextStore]_vars
    /\ \A t \in Tabs :
          /\ WF_vars(onmessage(t))
          /\ \A k \in 1..MaxLoads :
                /\ WF_vars(getFullList(t, k))
                /\ WF_vars(loadCollections_items(t, k))
                /\ WF_vars(loadCollections_scaffolds(t, k))

----------------------------------------------------------------------------
(* What a finished request shows *)

Done == h.pc = "done"

\* the rule slot of collection c the operation op is gated by
RuleSlot(c, op) ==
    CASE op = "list" -> c.ListRule
      [] op = "view" -> c.ViewRule
      [] op = "create" -> c.CreateRule
      [] op = "update" -> c.UpdateRule
      [] op = "delete" -> c.DeleteRule
      [] OTHER -> Nil

\* the status the client gets: the one written, else the returned error's
Status == IF h.written.status # 0 THEN h.written.status ELSE h.ret.status

\* the request of a caller without superuser auth for an existing collection
\* whose rule slot for the operation is absent
AbsentRuleRequest ==
    /\ h.collection # NoCollection
    /\ RuleSlot(h.collection, h.op) = Nil
    /\ h.auth # "su"

ForbiddenErr == ApiError(403, "Only superusers can perform this action.")

\* the handler has entered stage s
Passed(s) == \E i \in 1..Len(h.stages) : h.stages[i] = s

\* the rows of the collection table
Rows == {db[i] : i \in {j \in Ids : db[j] # NoRecord}}

\* the request of a caller without superuser auth for an existing collection
\* whose rule slot for the operation holds a rule expression that parses
NonEmptyRuleRequest ==
    /\ h.collection # NoCollection
    /\ RuleSlot(h.collection, h.op) \in {OwnerRule, VerifiedRule}
    /\ h.auth # "su"

----------------------------------------------------------------------------
(* C1 *)

----------------------------------------------------------------------------
(* C2 *)

EmptyRuleRequest ==
    /\ h.collection # NoCollection
    /\ RuleSlot(h.collection, h.op) = ""

\* C2: with the empty string in the operation's rule slot no rule expression
\* is built, no predicate is added to the query and no create-rule query is
\* run, for any caller; the request is never answered with the 403 of the
\* gate, view, update and delete find every existing row, and list returns
\* every row the client's own filter selects
C2_EmptyRuleUnfiltered ==
    EmptyRuleRequest =>
        /\ h.op \notin h.built /\ h.op \notin h.applied /\ h.op \notin h.ruleQueries
        /\ h.op \notin h.ruleFailed
        /\ h.ret # ForbiddenErr /\ Status # 403
        /\ h.createCheck \notin {"build error", "query error", "false", "passed"}
        /\ (h.op \in {"view", "update", "delete"} /\ Passed("Query") /\ ~h.queryFailed
              /\ db[h.recordId] # NoRecord => h.record # NoRecord)
        /\ (h.op = "list" /\ Passed("Query") /\ ~h.queryFailed
              /\ h.requestInfo.Query \in {"", FilterOwner}
              => h.records = {r \in Rows : FilterHolds(h.requestInfo.Query, r)})

C2_Witness ==
    /\ Done /\ EmptyRuleRequest /\ h.op = "delete" /\ h.auth = ""
    /\ h.written.status = 204
    /\ h.collection.ListRule = OwnerRule

----------------------------------------------------------------------------
(* C3 *)

\* C3: for a caller with superuser auth no rule expression is built, applied
\* or queried in any handler, whatever the rule slot holds; the request is
\* never answered with the absent-rule 403 and recordCreate makes no dummy
\* record and runs neither the create rule check nor the manage rule check
C3_SuperuserBypass ==
    h.auth = "su" =>
        /\ h.built = {} /\ h.applied = {} /\ h.ruleQueries = {} /\ h.ruleFailed = {}
        /\ h.ret # ForbiddenErr /\ Status # 403
        /\ h.createCheck = "none"
        /\ h.dummyRecord = NoRecord /\ h.dummyCollection = NoCollection
        /\ ~Passed("RuleCheck") /\ ~Passed("ManageCheck")
        /\ h.form \in {"none", "superuser"}

C3_Witness ==
    /\ Done /\ h.auth = "su" /\ h.op = "create"
    /\ h.collection.CreateRule = VerifiedRule /\ h.collection.ManageRule = OwnerRule
    /\ IsAuth(h.collection)
    /\ h.written.status = 200 /\ h.submitted

----------------------------------------------------------------------------
(* C4 *)

C4_State ==
    NonEmptyRuleRequest =>
        /\ (h.op = "list" => \A r \in h.records \cup h.written.records :
                                RuleHolds(h.collection.ListRule, r, h.requestInfo))
        /\ (h.op = "list" /\ Passed("Query") => "list" \in h.applied)
        /\ (h.op = "view" => \A r \in {h.record} \cup h.written.records :
                                r # NoRecord => RuleHolds(h.collection.ViewRule, r, h.requestInfo))
        /\ (h.op \in {"view", "update", "delete"} /\ Passed("Query") /\ h.record # NoRecord
              => h.op \in h.applied)
        /\ (h.submitted => h.op \in h.applied)

C4_Step ==
    (NonEmptyRuleRequest /\ h.op \in {"update", "delete"}) =>
        \A i \in Ids : db'[i] # db[i] =>
            /\ i = h.recordId
            /\ RuleHolds(RuleSlot(h.collection, h.op), db[i], h.requestInfo)

\* C4: for a caller without superuser auth and a non-empty rule, the rule is
\* added to the query before a record comes back from it: every record
\* listed or viewed satisfies the rule, and a row is changed by update or
\* removed by delete only if the rule held for that row when it was fetched
C4_RuleFiltered == [](C4_State) /\ [][C4_Step]_vars

C4_Witness ==
    /\ Done /\ NonEmptyRuleRequest /\ h.op = "update" /\ h.auth = "u1"
    /\ h.collection.UpdateRule = OwnerRule
    /\ h.written.status = 200 /\ h.submitted
    /\ h.record.owner = "u2"

----------------------------------------------------------------------------
(* C5 *)

BaseSlots == {"list", "view", "create", "update", "delete"}

\* C5 as stated: once building or executing any rule predicate (the manage
\* rule included) has failed, the request is denied: nothing is answered,
\* nothing is created, changed or deleted, and no manage access is granted
C5_AsStated ==
    h.ruleFailed # {} =>
        /\ ~h.submitted
        /\ h.written.status = 0
        /\ h.form # "manager"

\* C5: when building or executing the list, view, create, update or delete
\* rule fails, the handler returns an error at once: no record is answered,
\* created, changed or deleted; when building or executing the manage rule
\* fails, no manage access is granted (the request goes on without it)
C5_FailClosed ==
    /\ h.ruleFailed \cap BaseSlots # {} =>
          /\ Done
          /\ h.ret.status >= 400
          /\ ~h.submitted
          /\ h.written = NoResponse
          /\ h.records = {}
          /\ (h.op # "create" => h.record = NoRecord)
          /\ h.form # "manager"
    /\ "manage" \in h.ruleFailed => h.form # "manager"

C5_Witness ==
    /\ Done /\ h.op = "update" /\ h.auth = "u1"
    /\ h.ruleFailed = {"update"} /\ ~h.queryFailed
    /\ db[h.recordId] # NoRecord
    /\ Status = 404

----------------------------------------------------------------------------
(* C6 *)

\* the target row of a view, update or delete request is missing, or it is
\* there and the rule of the operation is false for it
MissingOrFilteredOut ==
    \/ db[h.recordId] = NoRecord
    \/ ~RuleHolds(RuleSlot(h.collection, h.op), db[h.recordId], h.requestInfo)

\* C6: a view, update or delete request of a non-superuser that got past the
\* gate ends with the same 404 error whether the target row is missing or is
\* there and filtered out by the rule
C6_Indistinguishable ==
    (Done /\ NonEmptyRuleRequest /\ h.op \in {"view", "update", "delete"}
          /\ Passed("AuthorizeBaseRule") /\ MissingOrFilteredOut)
        => h.ret = ApiError(404, "")

----------------------------------------------------------------------------
(* C7 *)

\* the row the manage rule query selects from
ManageRow == IF h.op = "create" THEN h.dummyRecord ELSE db[h.recordId]

C7_State ==
    h.form = "manager" =>
        /\ h.op \in {"create", "update"}
        /\ IsAuth(h.collection)
        /\ h.requestInfo.Auth # ""
        /\ h.collection.ManageRule \notin {Nil, ""}
        /\ "manage" \in h.applied /\ "manage" \notin h.ruleFailed

C7_Step ==
    (h.form # "manager" /\ h'.form = "manager") =>
        /\ h.pc = "manageRule"
        /\ RuleHolds(h.collection.ManageRule, ManageRow, h.requestInfo)

\* C7: the form has manager access only in a create or update request for an
\* auth collection, of a caller with an auth record, with a non-empty
\* ManageRule, and it gets it only in the step of the manage check and only
\* if the rule is true for the dummy row (create) or the stored row (update)
C7_ManageAccess == [](C7_State) /\ [][C7_Step]_vars

C7_Witness ==
    /\ Done /\ h.form = "manager" /\ h.op = "create" /\ h.auth = "u1"
    /\ h.collection.ManageRule = OwnerRule /\ h.collection.CreateRule = ""
    /\ h.submitted /\ h.written.status = 200

----------------------------------------------------------------------------
(* C8 *)

CreateCheckFailures == {"export error", "build error", "query error", "false"}

C8_State ==
    h.createCheck \in CreateCheckFailures =>
        /\ Done /\ ~h.submitted /\ ~Passed("Persist")

C8_Step ==
    (h.op = "create" /\ h.pc \in {"dummy", "createRule", "manageRule"}) => db' = db

\* C8: the steps of recordCreate that make the dummy record and check the
\* create rule and the manage rule leave the stored records as they are,
\* whatever the rule evaluates to and whether or not the query fails; after
\* a failed create rule check form.Submit is not reached
C8_CheckWritesNothing == [](C8_State) /\ [][C8_Step]_vars

C8_Witness ==
    /\ Done /\ h.op = "create" /\ h.createCheck = "false"
    /\ h.collection.CreateRule = OwnerRule /\ h.auth = "u1" /\ h.record.owner = "u2"
    /\ ~h.submitted

----------------------------------------------------------------------------
(* C9 *)

\* C9: the dummy record the create and manage rules are evaluated against
\* has verified = false and otherwise the submitted values; with the rule
\* "verified = true" in the create rule slot no non-superuser request gets
\* past the check, and with it in the ManageRule slot no create request is
\* granted manager access
C9_VerifiedForcedFalse ==
    h.op = "create" =>
        /\ (h.dummyRecord # NoRecord =>
              /\ h.dummyRecord.verified = FALSE
              /\ h.dummyRecord.owner = h.requestInfo.Body.owner)
        /\ (h.auth # "su" /\ h.collection.CreateRule = VerifiedRule =>
              /\ ~h.submitted
              /\ h.createCheck \notin {"passed", "empty"})
        /\ (h.collection.ManageRule = VerifiedRule => h.form # "manager")

C9_Witness ==
    /\ Done /\ h.op = "create" /\ h.auth = "u1"
    /\ h.collection.CreateRule = VerifiedRule
    /\ h.requestInfo.Body.verified = TRUE /\ h.record.verified = TRUE
    /\ h.dummyRecord.verified = FALSE
    /\ h.createCheck = "false"

----------------------------------------------------------------------------
(* C10 *)

\* C10: whatever made the create rule check fail (the export of the dummy
\* record, building the rule, running the rule query, or the rule being
\* false), the handler returns the same 400 error "Failed to create record"
\* and has written no response
C10_GenericFailure ==
    h.createCheck \in CreateCheckFailures =>
        /\ Done
        /\ h.ret = ApiError(400, "Failed to create record")
        /\ h.written = NoResponse

C10_Witness ==
    /\ Done /\ h.op = "create" /\ h.createCheck = "query error"
    /\ h.ret = ApiError(400, "Failed to create record")
    /\ RuleHolds(h.collection.CreateRule, h.dummyRecord, h.requestInfo)

----------------------------------------------------------------------------
(* C11 *)

\* a create, update or delete request made with a finalizer
FinalizerRequest == h.op \in {"create", "update", "delete"} /\ h.optFinalizer = "set"

----------------------------------------------------------------------------
(* C12 *)

C12_State ==
    /\ h.isOptFinalizerCalled =>
          /\ h.finalizerCalls = 1
          /\ h.submitted
          /\ h.written.status \in {200, 204}
    /\ (h.finalizerCalls = 1 /\ ~h.isOptFinalizerCalled) =>
          /\ Done /\ ~h.submitted /\ h.written = NoResponse

C12_Step ==
    /\ h'.finalizerCalls > h.finalizerCalls =>
          \/ /\ h.pc \in {"respond", "final"}
             /\ h'.isOptFinalizerCalled /\ h'.submitted /\ h'.written.status \in {200, 204}
             /\ h'.stages[Len(h'.stages)] = "Finalizer"
             /\ h'.stages[Len(h'.stages) - 1] = "Respond"
          \/ /\ h.pc = "afterHook" /\ ~h.isOptFinalizerCalled
             /\ ~h.submitted /\ h.written = NoResponse
    /\ (h.pc = "afterHook" /\ h.isOptFinalizerCalled) =>
          /\ h'.finalizerCalls = h.finalizerCalls
          /\ h'.ret = NoErr

\* C12: the call of the finalizer in the final handler is its last step, made
\* after the record was persisted (or deleted) and the response written, and
\* then the call after Trigger is skipped; the call after Trigger is made
\* only with isOptFinalizerCalled still false, that is when a handler stopped
\* the chain without error, nothing was persisted and nothing written
C12_InlineOrOuter == [](C12_State) /\ [][C12_Step]_vars

C12_Witness ==
    /\ Done /\ FinalizerRequest /\ h.op = "delete" /\ h.ret = NoErr
    /\ h.finalizerCalls = 1 /\ ~h.isOptFinalizerCalled
    /\ ~h.submitted /\ db[h.recordId] # NoRecord

----------------------------------------------------------------------------
(* C13 *)

\* the randomized throttle has been slept in this request
Throttled == h.throttle >= 0

\* the conditions of the throttle on caller, rule, filter and result
ThrottleConditions ==
    /\ h.op = "list"
    /\ h.auth # "su"
    /\ h.collection.ListRule \notin {Nil, ""}
    /\ h.requestInfo.Query # ""
    /\ h.records = {}

----------------------------------------------------------------------------
(* C14 *)

----------------------------------------------------------------------------
(* C15 *)

\* a list request of a caller without superuser auth whose filter or sort
\* names a field only superusers may filter or sort by
SuperuserOnlyFieldRequest ==
    /\ h.op = "list" /\ h.auth # "su"
    /\ h.requestInfo.Query = FilterSuperuserOnly

----------------------------------------------------------------------------
(* C16 *)

----------------------------------------------------------------------------
(* C17 *)

\* the frames of the two workers
Frames == {h, w}

\* the step is a switch of the running worker
IsSwitch == h' = w /\ w' = h

C17_State ==
    \A f \in Frames :
        f.form = "manager" =>
            /\ f.op \in {"create", "update"}
            /\ IsAuth(f.collection)
            /\ f.requestInfo.Auth \notin {"", "su"}
            /\ "manage" \in f.applied /\ "manage" \notin f.ruleFailed

C17_Step ==
    /\ ~IsSwitch => w'.form = w.form
    /\ (~IsSwitch /\ h.form # "manager" /\ h'.form = "manager") =>
          /\ h.pc = "manageRule"
          /\ RuleHolds(h.collection.ManageRule, ManageRow, h.requestInfo)

----------------------------------------------------------------------------
(* C20 *)

\* the other worker's list request is sleeping in randomizedThrottle
OtherSleeps == w.op = "list" /\ w.pc = "sleep"

C20_State == OtherSleeps => ENABLED Next

C20_Step ==
    /\ (~IsSwitch /\ OtherSleeps) => (w' = w)
    /\ (~IsSwitch /\ (h.pc = "sleep" \/ h'.pc = "sleep")) => (db' = db /\ w' = w)

----------------------------------------------------------------------------
(* C18 *)

\* the place of a stage in the order the specification gives (0: a stage
\* the specification's list does not name)
SpecOrder(s) ==
    CASE s = "ResolveCollection" -> 1
      [] s = "RateLimit" -> 2
      [] s = "ParseBody" -> 3
      [] s = "AuthorizeBaseRule" -> 4
      [] s = "Hook" -> 5
      [] s = "Query" -> 6
      [] s = "RuleCheck" -> 7
      [] s = "ManageCheck" -> 8
      [] s = "Persist" -> 9
      [] s = "Enrich" -> 10
      [] s = "Respond" -> 11
      [] OTHER -> 0

\* the place of a stage in the order the handlers go through
CodeOrder(s) ==
    CASE s = "ResolveCollection" -> 1
      [] s = "RateLimit" -> 2
      [] s = "ParseBody" -> 3
      [] s = "AuthorizeBaseRule" -> 4
      [] s = "SuperuserOnlyFields" -> 5
      [] s = "BuildRule" -> 6
      [] s = "Query" -> 7
      [] s = "Hook" -> 8
      [] s = "RuleCheck" -> 9
      [] s = "ManageCheck" -> 10
      [] s = "Persist" -> 11
      [] s = "Enrich" -> 12
      [] s = "Respond" -> 13
      [] s = "Finalizer" -> 14
      [] OTHER -> 0

\* the stages of the running request that precede its stage number j
Before(j) == {h.stages[i] : i \in 1..(j - 1)}

\* C18 as stated: the stages a handler has entered follow one another in
\* the order ResolveCollection, RateLimit, ParseBody, AuthorizeBaseRule,
\* PreHook, Query, rule checks, Persist, Enrich, Respond
C18_AsStated ==
    \A j \in 1..Len(h.stages) : \A s \in Before(j) :
        (SpecOrder(s) # 0 /\ SpecOrder(h.stages[j]) # 0) => SpecOrder(s) < SpecOrder(h.stages[j])

C18_State ==
    /\ \A j \in 1..Len(h.stages) :
          /\ CodeOrder(h.stages[j]) # 0
          /\ \A s \in Before(j) : CodeOrder(s) < CodeOrder(h.stages[j])
    /\ \A j \in 1..Len(h.stages) :
          /\ h.stages[j] = "RateLimit" => "ResolveCollection" \in Before(j)
          /\ h.stages[j] = "ParseBody" => "RateLimit" \in Before(j)
          /\ h.stages[j] = "AuthorizeBaseRule" => "ParseBody" \in Before(j)
          /\ h.stages[j] = "Query" => "AuthorizeBaseRule" \in Before(j)
          /\ h.stages[j] = "Hook" =>
                /\ "AuthorizeBaseRule" \in Before(j)
                /\ (h.op # "create" <=> "Query" \in Before(j))
          /\ h.stages[j] \in {"RuleCheck", "ManageCheck", "Persist"} => "Hook" \in Before(j)
          /\ h.stages[j] = "Enrich" =>
                /\ "Hook" \in Before(j)
                /\ (h.op \in {"create", "update"} => "Persist" \in Before(j))
          /\ h.stages[j] = "Respond" =>
                IF h.op = "delete" THEN "Persist" \in Before(j) ELSE "Enrich" \in Before(j)
    /\ (h.submitted \/ h.written # NoResponse) => Passed("Hook")

C18_Step == (db' # db) => (Passed("Hook") /\ h.pc \in {"submit", "final"})

\* C18: in every record handler the stages follow one another in the order
\* ResolveCollection, RateLimit, ParseBody, AuthorizeBaseRule, then for
\* list, view, update and delete the record query (with the rule added),
\* then the hook chain, then the create and manage rule checks, Persist,
\* Enrich, Respond and the finalizer; only create enters the hook chain
\* without a record query before it; every stage is entered after the stage
\* before it has finished, and nothing is persisted, deleted or answered
\* before the hook chain was entered
C18_StageOrder == [](C18_State) /\ [][C18_Step]_vars

C18_Witness ==
    /\ Done /\ h.op = "update" /\ h.auth = "u1" /\ h.optFinalizer = "set"
    /\ h.stages = <<"ResolveCollection", "RateLimit", "ParseBody", "AuthorizeBaseRule",
                    "Query", "Hook", "ManageCheck", "Persist", "Enrich", "Respond",
                    "Finalizer">>

----------------------------------------------------------------------------
(* C19 *)

\* C19: the only statuses a handler writes are 200 and 204; view, create and
\* update write 200 with the record of the request as payload (for create
\* and update the record as it was persisted), delete writes 204 with no
\* body after the row was deleted, list writes 200 with the records found;
\* a handler that went through its Respond stage and returned nil has
\* written its response
C19_SuccessStatus ==
    /\ h.written.status \in {0, 200, 204}
    /\ h.written # NoResponse =>
          /\ Passed("Respond")
          /\ h.op \in {"view", "create", "update"} =>
                /\ h.written.status = 200
                /\ h.record # NoRecord /\ h.written.records = {h.record}
                /\ db[h.record.id] = h.record
          /\ h.op = "delete" =>
                /\ h.written = [status |-> 204, records |-> {}]
                /\ db[h.record.id] = NoRecord
          /\ h.op = "list" =>
                /\ h.written = [status |-> 200, records |-> h.records]
    /\ (Done /\ h.ret = NoErr /\ Passed("Respond")) => h.written # NoResponse

C19_Witness ==
    /\ Done /\ h.op = "delete" /\ h.ret = NoErr /\ h.auth = "u1"
    /\ h.written = [status |-> 204, records |-> {}]
    /\ h.record.owner = "u1" /\ db[h.recordId] = NoRecord

\* ---------------------------------------------------------------------
\* C28
WriteOps == {"create", "update", "delete"}

ViewRequest(f) ==
    /\ f.op \in WriteOps
    /\ f.collection # NoCollection
    /\ IsView(f.collection)

\* C28: a create, update or delete request on a view collection is answered
\* with a 400 "Unsupported collection type." error for every caller, the
\* superuser included, and the handler has then run nothing but the
\* resolution of the collection: no rate limit, no request info, no
\* authorization gate, no rule query, no record read and no write.
C28_ViewRejectedFirst ==
    ViewRequest(h) =>
        /\ Done
        /\ h.ret = ApiError(400, "Unsupported collection type.")
        /\ h.stages = <<"ResolveCollection">>
        /\ h.requestInfo = NoRequestInfo
        /\ h.built = {} /\ h.ruleQueries = {}
        /\ h.record = NoRecord /\ h.dummyRecord = NoRecord
        /\ ~h.submitted
        /\ h.finalizerCalls = 0
        /\ h.written = NoResponse

\* a superuser's update of a view collection has been rejected
C28_Witness ==
    /\ Done /\ h.op = "update" /\ h.auth = "su"
    /\ ViewRequest(h)
    /\ h.ret.status = 400

\* ---------------------------------------------------------------------
\* C25
LastStage == IF h.stages = <<>> THEN "" ELSE h.stages[Len(h.stages)]

\* a hook handler stopped the chain without an error: Trigger returned nil
\* and the final handler never ran
HookStopped ==
    /\ h.op \in WriteOps
    /\ h.pc \in {"afterHook", "done"}
    /\ Passed("Hook") /\ ~Passed("Persist")
    /\ \/ h.pc = "afterHook" /\ LastStage = "Hook"
       \/ Done /\ LastStage = "Hook" /\ h.ret = NoErr
       \/ Done /\ LastStage = "Finalizer" /\ ~h.isOptFinalizerCalled

\* C25 as stated: a finished create, update or delete request whose hook
\* chain was stopped without an error has persisted nothing, written no
\* response and returned nil
C25_AsStated ==
    (Done /\ HookStopped) =>
        /\ ~h.submitted
        /\ h.written = NoResponse
        /\ h.ret = NoErr

C25_State ==
    h.op \in WriteOps =>
        /\ h.submitted =>
              \E i, j \in 1..Len(h.stages) :
                  i < j /\ h.stages[i] = "Hook" /\ h.stages[j] = "Persist"
        /\ HookStopped =>
              /\ ~h.submitted
              /\ h.written = NoResponse
              /\ (Done /\ h.finalizerCalls = 0) => h.ret = NoErr
        /\ h.op = "delete" =>
              /\ h.dummyRecord = NoRecord
              /\ h.createCheck = "none"
              /\ h.built \cap {"create", "manage"} = {}
              /\ h.ruleQueries \cap {"create", "manage"} = {}
              /\ ~Passed("RuleCheck") /\ ~Passed("ManageCheck")

C25_Step ==
    /\ db' # db =>
          /\ h.op \in WriteOps /\ Passed("Hook")
          /\ h.pc \in {"submit", "final"}
          /\ h'.submitted
    /\ (h.op \in WriteOps /\ h.pc = "trigger" /\ h'.pc = "afterHook") =>
          /\ db' = db
          /\ h'.written = NoResponse

\* C25: a create, update or delete handler persists only inside the final
\* handler of its hook chain (every write of the table is a step of the
\* final handler, after the Hook stage); when a hook handler stops the chain
\* without an error nothing is persisted or deleted and no response is
\* written, and the handler returns nil unless an optional finalizer, then
\* called outside the hook, returns an error; recordDelete makes no
\* hypothetical-record check and no manage-rule query.
C25_PersistInFinalHandler == [](C25_State) /\ [][C25_Step]_vars

\* a delete whose hook chain was stopped returned nil: the record is still
\* in the table and no response was written
C25_Witness ==
    /\ Done /\ h.op = "delete" /\ h.optFinalizer = "nil"
    /\ HookStopped
    /\ h.ret = NoErr /\ h.written = NoResponse
    /\ h.record # NoRecord /\ db[h.record.id] # NoRecord

\* ---------------------------------------------------------------------
\* C29
\* the handler is inside Trigger: in a hook handler or in the final handler
InHook ==
    /\ h.op \in WriteOps
    /\ h.pc \in {"trigger", "dummy", "createRule", "manageRule", "submit", "respond", "final"}

C29_State ==
    (FinalizerRequest /\ Done) =>
        /\ h.isOptFinalizerCalled => h.finalizerCalls = 1
        /\ (Passed("Hook") /\ ~Passed("Finalizer")) =>
              /\ h.ret # NoErr
              /\ h.finalizerCalls = 0

C29_Step ==
    (InHook /\ h.optFinalizer = "set" /\ h'.pc = "done") =>
        /\ h'.ret # NoErr
        /\ IF h'.isOptFinalizerCalled
           THEN h'.finalizerCalls = 1
           ELSE h'.finalizerCalls = 0 /\ h'.stages[Len(h'.stages)] # "Finalizer"

\* C29: in create, update and delete, when Trigger returns an error before
\* the inline finalizer call was reached (a hook handler, the rule checks,
\* Submit, Delete, enrich or the response failed), the handler returns an
\* error straight from the hook and has not called the finalizer; when the
\* inline finalizer call itself returns an error, the handler returns with
\* the finalizer called exactly once.
C29_NoFinalizerOnHookError == [](C29_State) /\ [][C29_Step]_vars

\* an update with a finalizer whose Submit failed: the error is returned
\* and the finalizer was never called
C29_Witness ==
    /\ Done /\ h.op = "update" /\ h.optFinalizer = "set"
    /\ LastStage = "Persist"
    /\ h.ret # NoErr
    /\ h.finalizerCalls = 0 /\ ~h.isOptFinalizerCalled

\* ---------------------------------------------------------------------
\* C24
DataCall == call.fn = "recordDataFromRequest" /\ call.out.err = ""

\* the keys the caller submitted: the body's and those of the uploaded files
SubmittedKeys ==
    DOMAIN call.info.Body \cup
        {k \in DataLookupKeys : call.re.multipart /\ call.re.lookups[k] = "file"}

ExtractCall == call.fn = "extractUploadedFiles"

\* C26: extractUploadedFiles returns (nil, nil) for a request that is not
\* multipart/form-data; for a multipart request it looks up the keys name,
\* +name and name+ of every file field, under "prefix." when a prefix is
\* given; when the lookup of one of them fails with an error other than a
\* missing file it returns (nil, that error); otherwise it returns no error
\* and a map whose keys are exactly the looked-up keys with at least one
\* file, each with the files found.
C26_UploadedFiles ==
    ExtractCall =>
        LET keys == LookupKeys(call.fields, call.prefix) IN
        IF ~call.re.multipart
        THEN call.out.isNil /\ call.out.err = ""
        ELSE IF \E k \in keys : call.re.lookups[k] = "failed"
        THEN call.out.isNil /\ call.out.err = ErrLookup
        ELSE /\ ~call.out.isNil /\ call.out.err = ""
             /\ DOMAIN call.out.result = {k \in keys : call.re.lookups[k] = "file"}
             /\ \A k \in DOMAIN call.out.result : call.out.result[k] = <<"up_" \o k>>

\* a prefixed multipart call with a file under the append key of one field
\* and nothing under the field's name: the result has the one key only
C26_Witness ==
    /\ ExtractCall /\ call.re.multipart /\ call.prefix = "sub"
    /\ call.re.lookups["sub.doc"] = "missing"
    /\ call.re.lookups["sub.doc+"] = "file"
    /\ call.out.err = ""
    /\ DOMAIN call.out.result = {"sub.doc+"}

\* ---------------------------------------------------------------------
\* C30
\* the four conditions on a list request before the timing bucket is looked at
TimingConditions(f) ==
    /\ f.op = "list"
    /\ ~HasSuperuserAuth(f.requestInfo)
    /\ f.collection.ListRule \notin {Nil, ""}
    /\ f.requestInfo.Query # ""
    /\ f.records = {}

C30_State ==
    /\ h.timingCheck # "none" => TimingConditions(h)
    /\ \A k \in DOMAIN timing : timing[k] \in 0..MaxRequests

C30_Step ==
    /\ timing' # timing =>
          \/ /\ h' = h
             /\ \E k \in DOMAIN timing :
                   timing[k] < MaxRequests /\ timing' = [timing EXCEPT ![k] = MaxRequests]
          \/ /\ h.pc = "final" /\ TimingConditions(h)
             /\ h'.timingCheck = "ok"
             /\ timing' = [timing EXCEPT ![TimingKey(h.collection)] = @ - 1]
    /\ (h.op = "list" /\ h.pc = "final" /\ h'.timingCheck = "limited") =>
          /\ timing[TimingKey(h.collection)] = 0
          /\ timing' = timing

\* C30: the timing bucket of a collection is looked at only by a list
\* request of a caller who is not a superuser, on a collection with a
\* non-empty ListRule, with a non-empty filter and an empty result; such a
\* request takes one request out of the bucket of its own collection when
\* the bucket has one left; every other step of every list request leaves
\* every bucket as it is.
C30_BucketFrame == [](C30_State) /\ [][C30_Step]_vars

\* a list request that met the four conditions was answered without a
\* throttle and has used up the first request of its collection's bucket,
\* while the bucket of another collection is full
C30_Witness ==
    /\ Done /\ h.op = "list" /\ h.timingCheck = "ok"
    /\ timing[TimingKey(h.collection)] = MaxRequests - 1
    /\ \E k \in DOMAIN timing : timing[k] = MaxRequests

\* ---------------------------------------------------------------------
\* C21
\* the command line is one that skips the bootstrap: it names an unknown
\* command, or it has a help or version flag the command does not define
SkippingCommandLine ==
    \/ FindFails(app.args)
    \/ \E i \in 1..Len(app.args) :
          \/ app.args[i] = "--help" /\ "help" \notin app.flags
          \/ app.args[i] = "--version" /\ "version" \notin app.flags
          \/ app.args[i] = "-h" /\ "h" \notin app.shorthands
          \/ app.args[i] = "-v" /\ "v" \notin app.shorthands

\* Bootstrap returned an error
BootstrapFailed == app.bootErr # NoErr

\* C21: Execute calls Bootstrap, once, exactly when the app was not yet
\* bootstrapped and the command line is not one that skips the bootstrap;
\* when Bootstrap returns an error Execute returns that error, the two
\* goroutines are never started, the root command is not executed and the
\* terminate hook is not triggered.
C21_BootstrapGate ==
    /\ app.bootstrapCalls \in {0, 1}
    /\ app.pc \notin {"idle", "bootstrap"} =>
          (app.bootstrapCalls = 1 <=> (~app.wasBootstrapped /\ ~SkippingCommandLine))
    /\ BootstrapFailed =>
          /\ app.bootstrapCalls = 1
          /\ app.pc = "returned" /\ app.ret = app.bootErr
          /\ app.sig = "none" /\ app.cmd = "none"
          /\ ~app.rootExecuted
          /\ app.terminateCalls = 0 /\ app.resetCalls = 0
    /\ app.bootstrapCalls = 0 => ~BootstrapFailed

\* Bootstrap failed for a command line with a help flag that the command
\* defines itself
C21_Witness ==
    /\ BootstrapFailed
    /\ app.ret = ErrBootstrap
    /\ \E i \in 1..Len(app.args) : app.args[i] = "--help"
    /\ ~app.rootExecuted /\ app.terminateCalls = 0

\* ---------------------------------------------------------------------
\* C22
\* one of the two events has happened
EventHappened == app.sig \in {"sending", "exited"} \/ app.cmd \in {"sending", "exited"}

C22_State ==
    /\ app.terminateCalls \in {0, 1}
    /\ app.resetCalls <= app.terminateCalls
    /\ app.terminateCalls = 1 =>
          /\ app.pc = "returned"
          /\ app.received = 1
          /\ EventHappened
    /\ (app.pc = "returned" /\ app.received = 1) => app.terminateCalls = 1

C22_Step ==
    /\ app'.terminateCalls # app.terminateCalls =>
          /\ app.pc = "terminate" /\ app.received = 1 /\ EventHappened
          /\ app'.terminateCalls = 1
    /\ app'.resetCalls # app.resetCalls =>
          /\ app'.terminateCalls = app.terminateCalls + 1
          /\ ~app'.bootstrapped
    /\ app'.bootstrapped # app.bootstrapped =>
          \/ app.pc = "idle"
          \/ app.pc = "bootstrap" /\ app'.bootstrapped
          \/ app.pc = "terminate" /\ app'.resetCalls = 1 /\ ~app'.bootstrapped

\* C22: once the bootstrap phase of Execute is over without an error, the
\* OnTerminate hook is triggered at most once and only after a value was
\* received from done, that is after a signal arrived or the root command
\* returned; once one of the two has happened the hook is triggered; the
\* bootstrap state is reset only by the final handler of that trigger.
C22_TerminateOnce ==
    /\ [](C22_State)
    /\ [][C22_Step]_vars
    /\ (app.pc = "recv" /\ EventHappened) ~> (app.terminateCalls = 1)

\* Execute bootstrapped the app, a signal arrived while the root command
\* was still running, and the terminate hook ran once and reset the
\* bootstrap state
C22_Witness ==
    /\ app.pc = "returned" /\ app.bootstrapCalls = 1
    /\ app.sig = "exited" /\ app.cmd = "running"
    /\ app.terminateCalls = 1 /\ app.resetCalls = 1
    /\ ~app.bootstrapped /\ app.ret = NoErr

\* ---------------------------------------------------------------------
\* C27
\* C27: when no --queryTimeout flag is passed, the QueryTimeout given to
\* the app equals Config.DefaultQueryTimeout, or core.DefaultQueryTimeout
\* when Config.DefaultQueryTimeout is zero, for every configured duration
\* that is not negative.
C27_DefaultQueryTimeout ==
    (call.fn = "NewWithConfig" /\ call.flag = NoFlag /\ call.config.DefaultQueryTimeout >= 0) =>
        call.out.QueryTimeout =
            IF call.config.DefaultQueryTimeout = 0
            THEN DefaultQueryTimeout
            ELSE call.config.DefaultQueryTimeout

\* ---------------------------------------------------------------------
\* C23
\* the walk of a request path from the root of fsys: the directory reached,
\* or <<"..">> once a ".." segment has left fsys
RECURSIVE WalkInside(_, _)
WalkInside(at, segs) ==
    IF segs = <<>> \/ at = <<"..">> THEN at
    ELSE IF Head(segs) \in {"", "."} THEN WalkInside(at, Tail(segs))
    ELSE IF Head(segs) = ".."
    THEN WalkInside(IF at = <<>> THEN <<"..">> ELSE SubSeq(at, 1, Len(at) - 1), Tail(segs))
    ELSE WalkInside(Append(at, Head(segs)), Tail(segs))

\* the request path names a file or directory of fsys without leaving it
ResolvesInside(path) ==
    LET at == WalkInside(<<>>, path) IN
    at # <<"..">> /\ (FsRoot \o at) \in DOMAIN Files \cup Dirs

\* the content of the files of the tree that are not in fsys
OutsideContent == {Files[p] : p \in {q \in DOMAIN Files : q[1] # FsRoot[1]}}

\* the scenarios of TestStatic whose path the segments here can spell
StaticScenarios ==
    {[path |-> <<>>, indexFallback |-> FALSE, out |-> Served("sub index.html")],
     [path |-> <<"missing", "missing", "missing">>, indexFallback |-> FALSE, out |-> NotFound],
     [path |-> <<"missing", "missing", "missing">>, indexFallback |-> TRUE, out |-> Served("sub index.html")],
     [path |-> <<"testroot">>, indexFallback |-> FALSE, out |-> NotFound],
     [path |-> <<"test">>, indexFallback |-> FALSE, out |-> Served("sub test")],
     [path |-> <<"sub2">>, indexFallback |-> FALSE, out |-> Redirect],
     [path |-> <<"sub2", "">>, indexFallback |-> FALSE, out |-> Served("sub2 index.html")],
     [path |-> <<"sub2", "test">>, indexFallback |-> FALSE, out |-> Served("sub2 test")],
     [path |-> <<"sub2", "test", "">>, indexFallback |-> FALSE, out |-> Redirect],
     [path |-> <<"", "..", "testroot">>, indexFallback |-> FALSE, out |-> NotFound],
     [path |-> <<"\\..", "testroot">>, indexFallback |-> TRUE, out |-> Served("sub index.html")],
     [path |-> <<"..", "..", "testroot">>, indexFallback |-> FALSE, out |-> NotFound],
     [path |-> <<"..\\testroot">>, indexFallback |-> TRUE, out |-> Served("sub index.html")],
     [path |-> <<"..", "..\\testroot">>, indexFallback |-> FALSE, out |-> NotFound],
     [path |-> <<"..\\..", "", "testroot">>, indexFallback |-> FALSE, out |-> NotFound],
     [path |-> <<"%2e%2e%2ftestroot">>, indexFallback |-> FALSE, out |-> NotFound],
     [path |-> <<"%2e%2e", "testroot">>, indexFallback |-> TRUE, out |-> Served("sub index.html")],
     [path |-> <<"%252e%252e%255ctestroot">>, indexFallback |-> FALSE, out |-> NotFound]}

StaticCall == call.fn = "Static"

----------------------------------------------------------------------------
(* C31 *)

\* the final create handler is between the clone of the record and the
\* manage rule check
InCreateCheck == h.op = "create" /\ h.pc \in {"dummy", "createRule", "manageRule"}

\* the dummy record and the dummy collection were made
CreateChecked == h.op = "create" /\ h.dummyRecord # NoRecord

C31_State ==
    CreateChecked =>
        /\ h.collection \in Collections
        /\ h.record.id # TempId
        /\ h.dummyRecord.id = TempId
        /\ h.dummyRecord.verified = FALSE
        /\ h.dummyRecord.owner = h.record.owner
        /\ h.dummyCollection # NoCollection =>
              /\ h.dummyCollection.Id = h.collection.Id \o dummyRandomPart
              /\ h.dummyCollection.Name = h.collection.Name \o dummyRandomPart
              /\ h.dummyCollection \notin Collections
              /\ h.dummyCollection.CreateRule = h.collection.CreateRule
              /\ h.dummyCollection.ManageRule = h.collection.ManageRule

C31_Step ==
    InCreateCheck =>
        /\ h'.collection.Id = h.collection.Id
        /\ h'.collection.Name = h.collection.Name
        /\ h'.record.id = h.record.id
        /\ h'.record.verified = h.record.verified
        /\ db' = db

\* C31: the check of the final create handler against the create and
\* manage rules leaves the event's collection with its Id and Name and the
\* event's record with its id and its verified value; the random suffix is
\* on the dummy collection only, the temporary id and verified = false are
\* on the dummy record only, and no row is written by the check.
C31_ChecksOnCopies == [](C31_State) /\ [][C31_Step]_vars

\* a create request that submitted verified = true passed the check: the
\* record is still verified and without an id, the dummy record is not
C31_Witness ==
    /\ h.op = "create" /\ h.pc = "submit"
    /\ h.createCheck = "passed"
    /\ h.record.verified /\ h.record.id = 0
    /\ h.dummyRecord = [h.record EXCEPT !.id = TempId, !.verified = FALSE]
    /\ h.dummyCollection.Id = h.collection.Id \o dummyRandomPart

----------------------------------------------------------------------------
(* C32 *)

\* the goroutines whose send to done has completed
Sent == {g \in {"sig", "cmd"} : app[g] = "exited"}

\* goroutine g is at its send and the buffer of done is full
SendWaits(g) == app[g] = "sending" /\ app.done = 1

C32_State ==
    /\ app.done \in {0, 1}
    /\ app.received \in {0, 1}
    /\ app.done + app.received = Cardinality(Sent)
    /\ \A g \in {"sig", "cmd"} :
          /\ SendWaits(g) => app.pc = "recv" /\ app.received = 0
          /\ g \in app.blocked => app[g] = "sending"
    /\ app.pc = "terminate" => app.received = 1
    /\ app.terminateCalls > 0 => app.received = 1

C32_Step ==
    /\ app'.received # app.received =>
          /\ app.pc = "recv" /\ app'.pc = "terminate"
          /\ app'.received = 1 /\ app'.done = app.done - 1
          /\ app'.terminateCalls = 0
    /\ \A g \in {"sig", "cmd"} :
          (app[g] = "sending" /\ app'[g] # "sending") =>
              app'[g] = "exited" /\ app'.done = app.done + 1

\* C32: the done channel holds at most one value and the main flow of
\* Execute receives exactly one value, before it triggers the terminate
\* hook; a send that finds the buffer full waits only while the main flow
\* has not yet received, and whatever the order of the signal and of the
\* return of the root command, a goroutine that has reached its send to
\* done completes it.
C32_SendsComplete ==
    /\ [](C32_State)
    /\ [][C32_Step]_vars
    /\ (app.sig = "sending") ~> (app.sig = "exited")
    /\ (app.cmd = "sending") ~> (app.cmd = "exited")

\* a signal arrived and the root command returned; one of the two sends
\* had to wait for the main flow, both completed, the main flow received
\* one value and the other one stays in the buffer
C32_Witness ==
    /\ app.sig = "exited" /\ app.cmd = "exited"
    /\ app.pc = "returned" /\ app.terminateCalls = 1
    /\ app.received = 1 /\ app.done = 1

----------------------------------------------------------------------------
(* C33 *)

\* call k of loadCollections of tab t puts the list it waited for into the store
LoadSetsList(t, k) ==
    /\ ui.tab[t].loads[k].pc = "list"
    /\ ui.tab[t].loads[k].answer = "items"
    /\ ui'.tab[t].loads[k].pc = "scaffolds"

C33_Step ==
    \A t \in Tabs, k \in 1..MaxLoads :
        LoadSetsList(t, k) =>
            ui.tab[t].loads[k].added \subseteq IdsOf(ui'.tab[t].collections)

\* C33: when a call of loadCollections puts the list of the server into the
\* store, every collection that addCollection added while the call was
\* waiting for the list (and that was not removed since) is in the
\* collections store.
C33_AddedSurvivesLoad == [][C33_Step]_vars

----------------------------------------------------------------------------
(* C35 *)

\* no call of loadCollections of tab t is in flight
NoLoadInFlight(t) == \A k \in 1..MaxLoads : ui.tab[t].loads[k] = NoLoad

\* C35: in every tab, when no call of loadCollections is in flight,
\* activeCollection is the empty object the store was made with or a
\* collection whose id is in the collections list.
C35_ActiveInList ==
    \A t \in Tabs :
        NoLoadInFlight(t) =>
            \/ ui.tab[t].activeCollection = EmptyObject
            \/ /\ ui.tab[t].activeCollection.kind = "collection"
               /\ ui.tab[t].activeCollection.id \in IdsOf(ui.tab[t].collections)

----------------------------------------------------------------------------
(* C34 *)

RECURSIVE PostedBy(_)
\* the postMessage calls of the tabs of T
PostedBy(T) ==
    IF T = {} THEN 0
    ELSE LET t == CHOOSE u \in T : TRUE IN ui.tab[t].posted + PostedBy(T \ {t})

\* no message waits in a tab
ChannelQuiet == \A t \in Tabs : ui.tab[t].inbox = 0

C34_State ==
    /\ PostedBy(Tabs) <= ui.ops
    /\ \A t \in Tabs :
          /\ ui.tab[t].reloads + ui.tab[t].inbox = PostedBy(Tabs \ {t})
          /\ \A k \in 1..MaxLoads :
                ui.tab[t].loads[k].fromMessage => ui.tab[t].reloads > 0

C34_Step ==
    /\ ui'.ops = ui.ops =>
          \A t \in Tabs :
              /\ ui'.tab[t].posted = ui.tab[t].posted
              /\ ui'.tab[t].inbox <= ui.tab[t].inbox
              /\ ui'.tab[t].reloads - ui.tab[t].reloads = ui.tab[t].inbox - ui'.tab[t].inbox
    /\ \A t \in Tabs :
          ui'.tab[t].posted # ui.tab[t].posted =>
              /\ ui'.tab[t].posted = ui.tab[t].posted + 1
              /\ ui'.ops = ui.ops + 1
              /\ ui'.tab[t].collections # ui.tab[t].collections \/
                     ui.tab[t].activeCollection # Undefined
              /\ ui'.tab[t].inbox = ui.tab[t].inbox
              /\ \A u \in Tabs \ {t} :
                    /\ ui'.tab[u].inbox = ui.tab[u].inbox + 1
                    /\ ui'.tab[u].posted = ui.tab[u].posted

\* C34: a step of a tab that is no call of the dashboard (the message
\* event, the answer of the server and the two continuations of
\* loadCollections) posts nothing and queues no message; a post is one
\* call of addCollection or removeCollection and queues one message at
\* every other tab and none at the own one; every tab starts one reload for
\* every message posted by the others, and once the dashboard makes no more
\* calls the channel falls silent for good.
C34_OnlyAddAndRemovePost ==
    /\ [](C34_State)
    /\ [][C34_Step]_vars
    /\ <>[](ChannelQuiet)

\* tab1 added a collection: tab2 has reloaded once because of it and holds
\* the list of the server, nothing was posted by tab2 and no message waits
C34_Witness ==
    /\ ui.tab["tab1"].posted = 1 /\ ui.tab["tab2"].posted = 0
    /\ ui.tab["tab2"].reloads = 1 /\ ui.tab["tab2"].collections # <<>>
    /\ ui.tab["tab2"].loads = [k \in 1..MaxLoads |-> NoLoad]
    /\ ChannelQuiet

=============================================================================
